---- MODULE Spec2Model ----
(***************************************************************************)
(* Model of Selector.py (xzy210/StockTradebyZ): the indicator library, the *)
(* adaptive BBI trend test, the peak extractor and the five selectors with *)
(* their select / _passes_filters / explain_selection methods.             *)
(*                                                                         *)
(* Numbers.  Prices are integers in hundredths of a currency unit.        *)
(* Thresholds that the code holds as floats are rationals [n, d] (d > 0)   *)
(* and every comparison the code makes on a quotient is made here by       *)
(* cross-multiplication, with the IEEE outcomes of a zero divisor (inf,    *)
(* nan) spelled out.  BBI is carried as 96 * BBI (exact).  The recursive   *)
(* smoothings (K, D, J and the two EMAs of DIF) are carried in fixed point *)
(* (JScale, EmaScale) with floor rounding.                                 *)
(*                                                                         *)
(* A call's outcome is "True" / "False" or the name of the exception it    *)
(* raises; a DataFrame is [cols, rows].                                    *)
(***************************************************************************)
EXTENDS Integers, Sequences, FiniteSets, TLC

\* ------------------------------------------------------------------ numbers

R(n, d) == [n |-> n, d |-> d]

Abs(x) == IF x < 0 THEN -x ELSE x

Sgn(x) == IF x > 0 THEN 1 ELSE IF x < 0 THEN -1 ELSE 0

Min2(a, b) == IF a <= b THEN a ELSE b

Max2(a, b) == IF a >= b THEN a ELSE b

\* F applied to the value of x: a local of the code, assigned once and read
\* by the statements after it
Bind(x, F(_)) == CHOOSE r \in {F(v) : v \in {x}} : TRUE

\* 0 <= q <= 1 for a rational q
InUnit(q) == 0 <= q.n /\ q.n <= q.d

Exceptions == {"KeyError", "ValueError", "IndexError", "TypeError"}

IsExc(o) == o \in Exceptions

\* a / b > p as numpy evaluates it in float64: b = 0 gives +-inf or nan,
\* and every comparison with nan is False
QuotGT(a, b, p) ==
    IF b > 0 THEN a * p.d > p.n * b
    ELSE IF b < 0 THEN a * p.d < p.n * b
    ELSE a > 0

\* a / b < p, same conventions
QuotLT(a, b, p) ==
    IF b > 0 THEN a * p.d < p.n * b
    ELSE IF b < 0 THEN a * p.d > p.n * b
    ELSE a < 0

\* ------------------------------------------------------------------ frames

Columns == {"date", "open", "high", "low", "close", "volume"}

Col(rows, c) == [i \in 1..Len(rows) |-> rows[i][c]]

\* pandas DataFrame.tail(n): the last n rows; for n < 0 all but the first -n
TailRows(rows, n) ==
    LET len == Len(rows)
        from == IF n >= 0 THEN Max2(1, len - n + 1) ELSE Min2(len + 1, 1 - n)
    IN  SubSeq(rows, from, len)

\* df[df["date"] <= date]
UpTo(rows, date) == SelectSeq(rows, LAMBDA b : b.date <= date)

SeqMax(s) == CHOOSE x \in {s[i] : i \in 1..Len(s)} : \A j \in 1..Len(s) : s[j] <= x

SeqMin(s) == CHOOSE x \in {s[i] : i \in 1..Len(s)} : \A j \in 1..Len(s) : s[j] >= x

SetMin(S) == CHOOSE x \in S : \A y \in S : x <= y

RECURSIVE SeqSum(_, _, _)
SeqSum(s, lo, hi) == IF lo > hi THEN 0 ELSE s[hi] + SeqSum(s, lo, hi - 1)

\* Series.rolling(window = n, min_periods = 1).min() / .max()
RollMin(s, n) == [i \in 1..Len(s) |-> SeqMin(SubSeq(s, Max2(1, i - n + 1), i))]

RollMax(s, n) == [i \in 1..Len(s) |-> SeqMax(SubSeq(s, Max2(1, i - n + 1), i))]

\* Linear-interpolation quantile (numpy / pandas default) of a non-empty
\* sequence of integers, as the rational q.d * value over q.d
Quantile(s, q) ==
    Bind(SortSeq(s, LAMBDA a, b : a < b), LAMBDA srt :
    Bind((q.n * (Len(s) - 1)) \div q.d, LAMBDA lo :
    Bind((q.n * (Len(s) - 1)) % q.d, LAMBDA rem :
    Bind(IF lo + 2 <= Len(s) THEN srt[lo + 2] ELSE srt[lo + 1], LAMBDA nxt :
        R(srt[lo + 1] * q.d + rem * (nxt - srt[lo + 1]), q.d)))))

\* x <= r for an integer x and a rational r
LeqRat(x, r) == x * r.d <= r.n

\* ------------------------------------------------------------------ indicators

KdjN == 9

JScale == 100

EmaScale == 1000

RsvBig == 1000000

\* 100 * num / (den + 1e-9) in units of 1 / JScale; den = 0 makes the
\* quotient 0 for num = 0 and of the order of 1e11 * num otherwise
RsvFixed(num, den) ==
    IF den > 0 THEN (100 * JScale * num) \div den
    ELSE IF den = 0 THEN Sgn(num) * RsvBig * JScale
    ELSE -((100 * JScale * num) \div (-den))

\* Variant for C11: D smoothed from the K of the bar before
RECURSIVE kdj_fold_stale_K(_, _, _, _, _)
kdj_fold_stale_K(rsv, i, K, D, acc) ==
    IF i > Len(rsv) THEN acc
    ELSE LET k == IF i = 1 THEN 50 * JScale ELSE (2 * K + rsv[i]) \div 3
             d == IF i = 1 THEN 50 * JScale ELSE (2 * D + K) \div 3
         IN  kdj_fold_stale_K(rsv, i + 1, k, d,
                              Append(acc, [K |-> k, D |-> d, J |-> 3 * k - 2 * d]))

\* The loop of compute_kdj from bar i on, K and D being those of bar i - 1
RECURSIVE kdj_fold(_, _, _, _, _)
kdj_fold(rsv, i, K, D, acc) ==
    IF i > Len(rsv) THEN acc
    ELSE LET k == IF i = 1 THEN 50 * JScale ELSE (2 * K + rsv[i]) \div 3
             d == IF i = 1 THEN 50 * JScale ELSE (2 * D + k) \div 3
         IN  kdj_fold(rsv, i + 1, k, d, Append(acc, [K |-> k, D |-> d, J |-> 3 * k - 2 * d]))

\* compute_kdj(df, n = 9): the K, D, J columns (empty for an empty frame)
compute_kdj(rows) ==
    Bind(RollMin(Col(rows, "low"), KdjN), LAMBDA low_n :
    Bind(RollMax(Col(rows, "high"), KdjN), LAMBDA high_n :
        kdj_fold([i \in 1..Len(rows) |->
                     RsvFixed(rows[i].close - low_n[i], high_n[i] - low_n[i])],
                 1, 0, 0, <<>>)))

BBI_W1 == 3
BBI_W2 == 6
BBI_W3 == 12
BBI_W4 == 24

\* compute_bbi(df): 96 * (ma3 + ma6 + ma12 + ma24) / 4; NaN until 24 closes exist
compute_bbi(rows) ==
    LET c == Col(rows, "close")
    IN  [i \in 1..Len(rows) |->
            IF i < BBI_W4 THEN [nan |-> TRUE, v |-> 0]
            ELSE [nan |-> FALSE,
                  v |-> 32 * SeqSum(c, i - BBI_W1 + 1, i) + 16 * SeqSum(c, i - BBI_W2 + 1, i)
                        + 8 * SeqSum(c, i - BBI_W3 + 1, i) + 4 * SeqSum(c, i - BBI_W4 + 1, i)]]

\* compute_rsv(df, n): the pair (num, den) of 100 * num / (den + 1e-9), with
\* the rolling max of close (not high) on the high side
compute_rsv(rows, n) ==
    Bind(RollMin(Col(rows, "low"), n), LAMBDA low_n :
    Bind(RollMax(Col(rows, "close"), n), LAMBDA high_close_n :
        [i \in 1..Len(rows) |->
            [num |-> 100 * (rows[i].close - low_n[i]),
             den |-> high_close_n[i] - low_n[i]]]))

\* rsv >= x and rsv < x for x > 0: the 1e-9 in the divisor makes an exact
\* quotient of x fall just below x
RsvGE(r, x) == IF r.den >= 0 THEN r.num > x * r.den ELSE r.num < x * r.den

RsvLT(r, x) == ~RsvGE(r, x)

DifFast == 12
DifSlow == 26

RECURSIVE ema_fold(_, _, _, _)
ema_fold(c, span, i, prev) ==
    IF i > Len(c) THEN prev
    ELSE ema_fold(c, span, i + 1,
                  IF i = 1 THEN EmaScale * c[1]
                  ELSE (2 * EmaScale * c[i] + (span - 1) * prev) \div (span + 1))

\* compute_dif(df).iloc[-1]: EMA(close, 12) - EMA(close, 26), adjust = False
dif_last(rows) ==
    LET c == Col(rows, "close")
    IN  ema_fold(c, DifFast, 1, 0) - ema_fold(c, DifSlow, 1, 0)

\* ------------------------------------------------------------------ trend

VARIABLES npEmptyQuantileRaises

dropna(bbi) == SelectSeq(bbi, LAMBDA x : ~x.nan)

\* seg = bbi.iloc[-w:]
TrendSeg(vals, w) ==
    IF w > 0 THEN SubSeq(vals, Max2(1, Len(vals) - w + 1), Len(vals))
    ELSE SubSeq(vals, Min2(Len(vals) + 1, 1 - w), Len(vals))

\* One window of the search: "accept", "reject" or the exception raised.
\* norm = seg / seg.iloc[0]; diffs = np.diff(norm); quantile(diffs, q) >= 0.
\* The differences are compared after scaling by |seg[0]| > 0; seg[0] = 0
\* makes the first normalised value nan, so the quantile is nan.
TrendWindow(vals, w, q) ==
    Bind(TrendSeg(vals, w), LAMBDA seg :
        IF Len(seg) = 0 THEN "IndexError"
        ELSE IF Len(seg) = 1
             THEN IF npEmptyQuantileRaises THEN "IndexError" ELSE "reject"
        ELSE IF seg[1].v = 0 THEN "reject"
        ELSE IF Quantile([i \in 1..(Len(seg) - 1) |->
                             Sgn(seg[1].v) * (seg[i + 1].v - seg[i].v)], q).n >= 0
             THEN "accept" ELSE "reject")

RECURSIVE TrendSearch(_, _, _, _)
TrendSearch(vals, w, min_window, q) ==
    IF w < min_window THEN "False"
    ELSE Bind(TrendWindow(vals, w, q), LAMBDA r :
             IF r = "accept" THEN "True"
             ELSE IF r = "reject" THEN TrendSearch(vals, w - 1, min_window, q)
             ELSE r)

bbi_deriv_uptrend(bbi, min_window, max_window, q_threshold) ==
    IF ~InUnit(q_threshold) THEN "ValueError"
    ELSE Bind(dropna(bbi), LAMBDA vals :
             IF Len(vals) < min_window THEN "False"
             ELSE TrendSearch(vals,
                              Min2(Len(vals),
                                   IF max_window = 0 THEN Len(vals) ELSE max_window),
                              min_window, q_threshold))

\* ------------------------------------------------------------------ BBIKDJSelector

\* low <= 0 or (high / low - 1) > pct, on the closes of a window; the max and
\* min of an empty window are nan and both comparisons are then False
RangeFails(closes, pct) ==
    /\ Len(closes) > 0
    /\ Bind(SeqMin(closes), LAMBDA low :
            low <= 0 \/ (SeqMax(closes) - low) * pct.d > pct.n * low)

\* The J gate shared by the filters: "True", "False" or "ValueError".
\* j_window = J.tail(max_window).dropna(); empty -> False;
\* j_today < j_threshold or j_today <= j_window.quantile(j_q_threshold)
JGate(js, j_threshold, max_window, j_q_threshold) ==
    Bind(TailRows(js, max_window), LAMBDA j_window :
        IF Len(j_window) = 0 THEN "False"
        ELSE IF ~InUnit(j_q_threshold) THEN "ValueError"
        ELSE IF js[Len(js)] < j_threshold
                \/ LeqRat(js[Len(js)], Quantile(j_window, j_q_threshold))
             THEN "True" ELSE "False")

\* Keyword arguments are a function from parameter names to values; a
\* parameter left out takes the default of the signature, an unknown name is
\* a TypeError
Kw(kw, name, default) == IF name \in DOMAIN kw THEN kw[name] ELSE default

BBIKDJ_params == {"j_threshold", "bbi_min_window", "max_window", "price_range_pct",
                  "bbi_q_threshold", "j_q_threshold"}

BBIKDJ_init(kw) ==
    IF ~(DOMAIN kw \subseteq BBIKDJ_params) THEN [exc |-> "TypeError"]
    ELSE [exc |-> "none",
          obj |-> [kind |-> "BBIKDJ",
                   j_threshold |-> Kw(kw, "j_threshold", -5 * JScale),
                   bbi_min_window |-> Kw(kw, "bbi_min_window", 90),
                   max_window |-> Kw(kw, "max_window", 90),
                   price_range_pct |-> Kw(kw, "price_range_pct", R(100, 1)),
                   bbi_q_threshold |-> Kw(kw, "bbi_q_threshold", R(5, 100)),
                   j_q_threshold |-> Kw(kw, "j_q_threshold", R(10, 100))]]

BBIKDJ_passes_filters(self, hist) ==
    IF "close" \notin hist.cols THEN "KeyError"
    ELSE IF RangeFails(Col(TailRows(hist.rows, self.max_window), "close"),
                       self.price_range_pct)
         THEN "False"
    ELSE Bind(bbi_deriv_uptrend(compute_bbi(hist.rows), self.bbi_min_window,
                                self.max_window, self.bbi_q_threshold), LAMBDA up :
             IF up # "True" THEN up
             ELSE IF Len(hist.rows) = 0 THEN "IndexError"
             ELSE IF ~({"low", "high"} \subseteq hist.cols) THEN "KeyError"
             ELSE Bind(JGate(Col(compute_kdj(hist.rows), "J"), self.j_threshold,
                             self.max_window, self.j_q_threshold), LAMBDA g :
                      IF g # "True" THEN g
                      ELSE IF dif_last(hist.rows) > 0 THEN "True" ELSE "False"))

\* The window select cuts for one symbol: [exc, empty, hist]
BBIKDJ_select_hist(self, date, df) ==
    IF "date" \notin df.cols THEN [exc |-> "KeyError", hist |-> df]
    ELSE [exc |-> "none",
          hist |-> [df EXCEPT !.rows = TailRows(UpTo(df.rows, date), self.max_window + 20)]]

BBIKDJ_select_one(self, date, df) ==
    Bind(BBIKDJ_select_hist(self, date, df),
         LAMBDA h :
            IF h.exc # "none" THEN h.exc
            ELSE IF Len(UpTo(df.rows, date)) = 0 THEN "skip"
            ELSE BBIKDJ_passes_filters(self, h.hist))

\* Variant for C1: explain_selection without the 20-bar buffer of select
BBIKDJ_explain_hist_unbuffered(self, date, df) ==
    IF "date" \notin df.cols THEN [exc |-> "KeyError", hist |-> df]
    ELSE [exc |-> "none",
          hist |-> [df EXCEPT !.rows = TailRows(UpTo(df.rows, date), self.max_window)]]

\* The window explain_selection cuts: df[df["date"] <= date].tail(max_window + 20)
BBIKDJ_explain_hist(self, date, df) ==
    IF "date" \notin df.cols THEN [exc |-> "KeyError", hist |-> df]
    ELSE [exc |-> "none",
          hist |-> [df EXCEPT !.rows = TailRows(UpTo(df.rows, date), self.max_window + 20)]]

BBIKDJ_explain_selection(self, date, df) ==
    Bind(BBIKDJ_explain_hist(self, date, df),
         LAMBDA h :
            IF h.exc # "none" THEN h.exc
            ELSE Bind(BBIKDJ_passes_filters(self, h.hist),
                      LAMBDA r : IF r = "False" THEN "sentinel"
                                 ELSE IF r = "True" THEN "breakdown"
                                 ELSE r))

\* ------------------------------------------------------------------ SuperB1Selector

\* 0 < p < 1 for a rational p
InOpenUnit(p) == 0 < p.n /\ p.n < p.d

\* Variant for C9: a missing B1_params falls back to the BBIKDJSelector defaults
SuperB1_init_optional_B1(kw) ==
    LET lookback_n == Kw(kw, "lookback_n", 60)
        close_vol_pct == Kw(kw, "close_vol_pct", R(5, 100))
        price_drop_pct == Kw(kw, "price_drop_pct", R(3, 100))
        j_q_threshold == Kw(kw, "j_q_threshold", R(10, 100))
    IN  IF lookback_n < 2 \/ ~InOpenUnit(close_vol_pct) \/ ~InOpenUnit(price_drop_pct)
           \/ ~InUnit(j_q_threshold)
        THEN [exc |-> "ValueError"]
        ELSE Bind(BBIKDJ_init(Kw(kw, "B1_params", <<>>)), LAMBDA inner :
                 IF inner.exc # "none" THEN [exc |-> inner.exc]
                 ELSE [exc |-> "none",
                       obj |-> [kind |-> "SuperB1", lookback_n |-> lookback_n,
                                close_vol_pct |-> close_vol_pct,
                                price_drop_pct |-> price_drop_pct,
                                j_threshold |-> Kw(kw, "j_threshold", -5 * JScale),
                                j_q_threshold |-> j_q_threshold,
                                bbi_selector |-> inner.obj,
                                extra_for_bbi |-> inner.obj.max_window + 20]])

SuperB1_init(kw) ==
    LET lookback_n == Kw(kw, "lookback_n", 60)
        close_vol_pct == Kw(kw, "close_vol_pct", R(5, 100))
        price_drop_pct == Kw(kw, "price_drop_pct", R(3, 100))
        j_threshold == Kw(kw, "j_threshold", -5 * JScale)
        j_q_threshold == Kw(kw, "j_q_threshold", R(10, 100))
    IN  IF ~(DOMAIN kw \subseteq {"lookback_n", "close_vol_pct", "price_drop_pct",
                                  "j_threshold", "j_q_threshold", "B1_params"})
        THEN [exc |-> "TypeError"]
        ELSE IF lookback_n < 2 THEN [exc |-> "ValueError"]
        ELSE IF ~InOpenUnit(close_vol_pct) THEN [exc |-> "ValueError"]
        ELSE IF ~InOpenUnit(price_drop_pct) THEN [exc |-> "ValueError"]
        ELSE IF ~InUnit(j_q_threshold) THEN [exc |-> "ValueError"]
        ELSE IF "B1_params" \notin DOMAIN kw THEN [exc |-> "ValueError"]
        ELSE LET inner == BBIKDJ_init(kw["B1_params"])
             IN  IF inner.exc # "none" THEN [exc |-> inner.exc]
                 ELSE [exc |-> "none",
                       obj |-> [kind |-> "SuperB1", lookback_n |-> lookback_n,
                                close_vol_pct |-> close_vol_pct,
                                price_drop_pct |-> price_drop_pct,
                                j_threshold |-> j_threshold,
                                j_q_threshold |-> j_q_threshold,
                                bbi_selector |-> inner.obj,
                                extra_for_bbi |-> inner.obj.max_window + 20]]

\* One more invocation of the inner filter than in the rest of the loop
OneMore(s) == [s EXCEPT !.calls = @ + 1]

\* Variant for C16: the candidates are taken from the most recent one
\* backward, a span shorter than 3 bars being passed over
RECURSIVE SuperB1_search_backward(_, _, _, _)
SuperB1_search_backward(self, hist, idx, last) ==
    IF idx > last THEN [exc |-> "none", tm |-> 0, calls |-> 0]
    ELSE Bind(BBIKDJ_passes_filters(self.bbi_selector,
                                    [hist EXCEPT !.rows = SubSeq(hist.rows, 1, last)]),
              LAMBDA r :
             IF IsExc(r) THEN [exc |-> r, tm |-> 0, calls |-> 1]
             ELSE IF r = "False"
                  THEN OneMore(SuperB1_search_backward(self, hist, idx, last - 1))
             ELSE Bind(Col(SubSeq(hist.rows, last, Len(hist.rows) - 1), "close"),
                       LAMBDA stable_seg :
                      IF Len(stable_seg) < 3 \/ RangeFails(stable_seg, self.close_vol_pct)
                      THEN OneMore(SuperB1_search_backward(self, hist, idx, last - 1))
                      ELSE [exc |-> "none", tm |-> last, calls |-> 1]))

\* Variant for C20: a failed consolidation check ends the loop
RECURSIVE SuperB1_search_break(_, _, _, _)
SuperB1_search_break(self, hist, idx, last) ==
    IF idx > last THEN [exc |-> "none", tm |-> 0, calls |-> 0]
    ELSE Bind(BBIKDJ_passes_filters(self.bbi_selector,
                                    [hist EXCEPT !.rows = SubSeq(hist.rows, 1, idx)]),
              LAMBDA r :
             IF IsExc(r) THEN [exc |-> r, tm |-> 0, calls |-> 1]
             ELSE IF r = "False"
                  THEN OneMore(SuperB1_search_break(self, hist, idx + 1, last))
             ELSE Bind(Col(SubSeq(hist.rows, idx, last), "close"), LAMBDA stable_seg :
                      IF Len(stable_seg) < 3 \/ RangeFails(stable_seg, self.close_vol_pct)
                      THEN [exc |-> "none", tm |-> 0, calls |-> 1]
                      ELSE [exc |-> "none", tm |-> idx, calls |-> 1]))

\* Step 1 of the filter: the loop over lb_hist.index[:-1], from position idx
\* up to position last (the bar before the target).  [exc, tm, calls]: tm = 0
\* for None, calls the number of invocations of the inner filter.
RECURSIVE SuperB1_search(_, _, _, _)
SuperB1_search(self, hist, idx, last) ==
    IF idx > last THEN [exc |-> "none", tm |-> 0, calls |-> 0]
    ELSE Bind(BBIKDJ_passes_filters(self.bbi_selector,
                                    [hist EXCEPT !.rows = SubSeq(hist.rows, 1, idx)]),
              LAMBDA r :
             IF IsExc(r) THEN [exc |-> r, tm |-> 0, calls |-> 1]
             ELSE IF r = "False" THEN OneMore(SuperB1_search(self, hist, idx + 1, last))
             ELSE Bind(Col(SubSeq(hist.rows, idx, last), "close"), LAMBDA stable_seg :
                      IF Len(stable_seg) < 3 THEN [exc |-> "none", tm |-> 0, calls |-> 1]
                      ELSE IF RangeFails(stable_seg, self.close_vol_pct)
                           THEN OneMore(SuperB1_search(self, hist, idx + 1, last))
                      ELSE [exc |-> "none", tm |-> idx, calls |-> 1]))

SuperB1_passes_filters(self, hist) ==
    Bind(Len(hist.rows), LAMBDA n :
        IF n < 2 THEN "False"
        ELSE IF n < self.lookback_n + self.extra_for_bbi THEN "False"
        ELSE Bind(SuperB1_search(self, hist, Max2(1, n - self.lookback_n), n - 1),
                  LAMBDA s :
                 IF s.exc # "none" THEN s.exc
                 ELSE IF s.tm = 0 THEN "False"
                 ELSE Bind(hist.rows[n - 1].close, LAMBDA close_prev :
                          IF close_prev <= 0
                             \/ QuotLT(close_prev - hist.rows[n].close, close_prev,
                                       self.price_drop_pct)
                          THEN "False"
                          ELSE Bind(Col(compute_kdj(hist.rows), "J"), LAMBDA js :
                                   \* j_window = J.iloc[-lookback_n:]
                                   IF js[n] < self.j_threshold
                                      \/ LeqRat(js[n],
                                                Quantile(TailRows(js, self.lookback_n),
                                                         self.j_q_threshold))
                                   THEN "True" ELSE "False"))))

\* The date of the t_m that step 1 of _passes_filters(hist) settles on; 0 when
\* the step is not reached, raises or ends with tm_idx = None
SuperB1_filter_tm(self, hist) ==
    Bind(Len(hist.rows), LAMBDA n :
        IF n < 2 \/ n < self.lookback_n + self.extra_for_bbi THEN 0
        ELSE Bind(SuperB1_search(self, hist, Max2(1, n - self.lookback_n), n - 1).tm,
                  LAMBDA tm : IF tm = 0 THEN 0 ELSE hist.rows[tm].date))

SuperB1_select_hist(self, date, df) ==
    IF "date" \notin df.cols THEN [exc |-> "KeyError", hist |-> df]
    ELSE [exc |-> "none",
          hist |-> [df EXCEPT !.rows = TailRows(UpTo(df.rows, date),
                                                self.lookback_n + self.extra_for_bbi)]]

SuperB1_select_one(self, date, df) ==
    Bind(SuperB1_select_hist(self, date, df),
         LAMBDA h :
            IF h.exc # "none" THEN h.exc
            ELSE IF Len(h.hist.rows) < self.lookback_n + self.extra_for_bbi THEN "skip"
            ELSE SuperB1_passes_filters(self, h.hist))

\* min_len = lookback_n + _extra_for_bbi; df[df["date"] <= date].tail(min_len)
SuperB1_explain_hist(self, date, df) ==
    IF "date" \notin df.cols THEN [exc |-> "KeyError", hist |-> df]
    ELSE [exc |-> "none",
          hist |-> [df EXCEPT !.rows = TailRows(UpTo(df.rows, date),
                                                self.lookback_n + self.extra_for_bbi)]]

\* The loop of explain_selection (lines 426-438): a candidate that passes
\* the inner filter is recorded; it ends the loop when its span has 3 bars
\* or more and is consolidated, stays recorded when the span is not
\* consolidated, and is forgotten when the span is shorter than 3 bars
RECURSIVE SuperB1_explain_search(_, _, _, _, _)
SuperB1_explain_search(self, hist, idx, last, tm) ==
    IF idx > last THEN tm
    ELSE Bind(BBIKDJ_passes_filters(self.bbi_selector,
                                    [hist EXCEPT !.rows = SubSeq(hist.rows, 1, idx)]),
              LAMBDA r :
             IF r # "True" THEN SuperB1_explain_search(self, hist, idx + 1, last, tm)
             ELSE Bind(Col(SubSeq(hist.rows, idx, last), "close"), LAMBDA stable_seg :
                      IF Len(stable_seg) < 3
                      THEN SuperB1_explain_search(self, hist, idx + 1, last, 0)
                      ELSE IF RangeFails(stable_seg, self.close_vol_pct)
                           THEN SuperB1_explain_search(self, hist, idx + 1, last, idx)
                      ELSE idx))

SuperB1_explain_selection(self, date, df) ==
    Bind(SuperB1_explain_hist(self, date, df),
         LAMBDA h :
            IF h.exc # "none" THEN h.exc
            ELSE Bind(SuperB1_passes_filters(self, h.hist),
                      LAMBDA r : IF r = "False" THEN "sentinel"
                                 ELSE IF r = "True" THEN "breakdown"
                                 ELSE r))

\* The B1 date in the text explain_selection returns (0: none reported, or
\* no breakdown returned)
SuperB1_explain_tm(self, date, df) ==
    IF SuperB1_explain_selection(self, date, df) # "breakdown" THEN 0
    ELSE Bind(SuperB1_explain_hist(self, date, df).hist, LAMBDA hist :
         Bind(SuperB1_explain_search(self, hist,
                                     Max2(1, Len(hist.rows) - self.lookback_n),
                                     Len(hist.rows) - 1, 0),
              LAMBDA tm : IF tm = 0 THEN 0 ELSE hist.rows[tm].date))

\* ------------------------------------------------------------------ peaks

PeakDistance == 6

\* prominence = 0.5, in hundredths
PeakProminence == 50

\* scipy _local_maxima_1d: the midpoints of the plateaus that rise from the
\* left and fall to the right; the first and last samples are never peaks
LocalMaxima(y) ==
    LET n == Len(y)
    IN  {(l + r) \div 2 : <<l, r>> \in
            {e \in (2..(n - 1)) \X (2..(n - 1)) :
                /\ e[1] <= e[2]
                /\ y[e[1] - 1] < y[e[1]]
                /\ y[e[2] + 1] < y[e[2]]
                /\ \A k \in e[1]..e[2] : y[k] = y[e[1]]}}

\* scipy _select_by_peak_distance: from the highest peak down, a kept peak
\* removes every peak closer than distance; of two equal peaks the later one
\* is taken first
RECURSIVE SelectByDistance(_, _, _, _)
SelectByDistance(y, todo, kept, distance) ==
    IF todo = {} THEN kept
    ELSE LET j == CHOOSE p \in todo :
                     \A o \in todo : y[o] < y[p] \/ (y[o] = y[p] /\ o <= p)
         IN  SelectByDistance(y, {o \in todo : Abs(o - j) >= distance},
                              kept \cup {j}, distance)

\* scipy _peak_prominences (no wlen): the peak's height above the higher of
\* the two minima between it and the next strictly higher sample on each side
Prominence(y, p) ==
    LET n == Len(y)
        lstop == IF \E i \in 1..(p - 1) : y[i] > y[p]
                 THEN CHOOSE i \in 1..(p - 1) :
                          y[i] > y[p] /\ \A k \in (i + 1)..(p - 1) : y[k] <= y[p]
                 ELSE 0
        rstop == IF \E i \in (p + 1)..n : y[i] > y[p]
                 THEN CHOOSE i \in (p + 1)..n :
                          y[i] > y[p] /\ \A k \in (p + 1)..(i - 1) : y[k] <= y[p]
                 ELSE n + 1
    IN  Bind(SeqMin(SubSeq(y, lstop + 1, p)), LAMBDA left_min :
        Bind(SeqMin(SubSeq(y, p, rstop - 1)), LAMBDA right_min :
            y[p] - Max2(left_min, right_min)))

\* _find_peaks(df, column = "oc_max", distance = 6, prominence = 0.5): the
\* positions of the peaks, ascending
_find_peaks(y, distance, prominence) ==
    Bind({p \in SelectByDistance(y, LocalMaxima(y), {}, distance) :
             Prominence(y, p) >= prominence},
         LAMBDA peaks :
            SortSeq([f \in 1..Cardinality(peaks) |->
                        CHOOSE p \in peaks : Cardinality({o \in peaks : o < p}) = f - 1],
                    LAMBDA a, b : a < b))

\* ------------------------------------------------------------------ PeakKDJSelector

PeakKDJ_init(kw) ==
    IF ~(DOMAIN kw \subseteq {"j_threshold", "max_window", "fluc_threshold",
                              "gap_threshold", "j_q_threshold"})
    THEN [exc |-> "TypeError"]
    ELSE [exc |-> "none",
          obj |-> [kind |-> "PeakKDJ",
                   j_threshold |-> Kw(kw, "j_threshold", -5 * JScale),
                   max_window |-> Kw(kw, "max_window", 90),
                   fluc_threshold |-> Kw(kw, "fluc_threshold", R(3, 100)),
                   gap_threshold |-> Kw(kw, "gap_threshold", R(2, 100)),
                   j_q_threshold |-> Kw(kw, "j_q_threshold", R(10, 100))]]

\* hist.sort_values("date")
SortByDate(rows) == SortSeq(rows, LAMBDA a, b : a.date < b.date)

OcMax(rows) == [i \in 1..Len(rows) |-> Max2(rows[i].open, rows[i].close)]

\* One candidate peak_prev of the backward search: peaks[idx] against the
\* latest peak peaks[total].  TRUE when the candidate is taken.
PeakPrevOk(self, rows, oc, peaks, idx) ==
    LET total   == Len(peaks)
        oc_t    == oc[peaks[total]]
        oc_prev == oc[peaks[idx]]
    IN  /\ oc_t > oc_prev
        /\ (total >= 3 /\ idx < total - 1)
              => \A k \in (idx + 1)..(total - 1) : oc[peaks[k]] < oc_prev
        /\ Bind({i \in 1..Len(rows) :
                    rows[i].date > rows[peaks[idx]].date
                    /\ rows[i].date < rows[peaks[total]].date},
                LAMBDA between :
                   /\ between # {}
                   \* not (oc_prev <= min_close * (1 + gap_threshold))
                   /\ oc_prev * self.gap_threshold.d
                         > SetMin({rows[i].close : i \in between})
                             * (self.gap_threshold.d + self.gap_threshold.n))

\* for idx in range(total_peaks - 2, -1, -1): the first candidate taken,
\* as a position in peaks (0 for None)
RECURSIVE PeakKDJ_target(_, _, _, _, _)
PeakKDJ_target(self, rows, oc, peaks, idx) ==
    IF idx < 1 THEN 0
    ELSE IF PeakPrevOk(self, rows, oc, peaks, idx) THEN idx
    ELSE PeakKDJ_target(self, rows, oc, peaks, idx - 1)

\* The peaks the filter works on: peaks_df[peaks_df["date"] < date_today]
PeakKDJ_peaks(rows) ==
    SelectSeq(_find_peaks(OcMax(rows), PeakDistance, PeakProminence),
              LAMBDA p : rows[p].date < rows[Len(rows)].date)

\* Variant for C15: no test of the number of peaks before peak_t is taken
PeakKDJ_passes_filters_unchecked(self, hist) ==
    IF Len(hist.rows) = 0 \/ hist.cols = {} THEN "False"
    ELSE IF ~({"date", "open", "close"} \subseteq hist.cols) THEN "KeyError"
    ELSE Bind(SortByDate(hist.rows), LAMBDA rows :
         Bind(PeakKDJ_peaks(rows), LAMBDA peaks :
             IF Len(peaks) = 0 THEN "IndexError"
             ELSE Bind(PeakKDJ_target(self, rows, OcMax(rows), peaks, Len(peaks) - 1),
                       LAMBDA t :
                      IF t = 0 THEN "False"
                      ELSE Bind(rows[peaks[t]].close, LAMBDA peak_close :
                               IF QuotGT(Abs(rows[Len(rows)].close - peak_close),
                                         peak_close, self.fluc_threshold)
                               THEN "False"
                               ELSE IF ~({"low", "high"} \subseteq hist.cols)
                                    THEN "KeyError"
                               ELSE JGate(Col(compute_kdj(rows), "J"), self.j_threshold,
                                          self.max_window, self.j_q_threshold)))))

PeakKDJ_passes_filters(self, hist) ==
    IF Len(hist.rows) = 0 \/ hist.cols = {} THEN "False"
    ELSE IF ~({"date", "open", "close"} \subseteq hist.cols) THEN "KeyError"
    ELSE Bind(SortByDate(hist.rows), LAMBDA rows :
         Bind(PeakKDJ_peaks(rows), LAMBDA peaks :
             IF Len(peaks) < 2 THEN "False"
             ELSE Bind(PeakKDJ_target(self, rows, OcMax(rows), peaks, Len(peaks) - 1),
                       LAMBDA t :
                      IF t = 0 THEN "False"
                      ELSE Bind(rows[peaks[t]].close, LAMBDA peak_close :
                               IF QuotGT(Abs(rows[Len(rows)].close - peak_close),
                                         peak_close, self.fluc_threshold)
                               THEN "False"
                               ELSE IF ~({"low", "high"} \subseteq hist.cols)
                                    THEN "KeyError"
                               ELSE JGate(Col(compute_kdj(rows), "J"), self.j_threshold,
                                          self.max_window, self.j_q_threshold)))))

\* Variant for C5: a window that is not cut at the date
PeakKDJ_select_hist_untruncated(self, date, df) ==
    IF "date" \notin df.cols THEN [exc |-> "KeyError", hist |-> df]
    ELSE [exc |-> "none",
          hist |-> [df EXCEPT !.rows = TailRows(df.rows, self.max_window + 20)]]

PeakKDJ_select_hist(self, date, df) ==
    IF "date" \notin df.cols THEN [exc |-> "KeyError", hist |-> df]
    ELSE [exc |-> "none",
          hist |-> [df EXCEPT !.rows = TailRows(UpTo(df.rows, date), self.max_window + 20)]]

PeakKDJ_select_one(self, date, df) ==
    Bind(PeakKDJ_select_hist(self, date, df),
         LAMBDA h :
            IF h.exc # "none" THEN h.exc
            ELSE IF Len(UpTo(df.rows, date)) = 0 THEN "skip"
            ELSE PeakKDJ_passes_filters(self, h.hist))

PeakKDJ_explain_hist(self, date, df) ==
    IF "date" \notin df.cols THEN [exc |-> "KeyError", hist |-> df]
    ELSE [exc |-> "none",
          hist |-> [df EXCEPT !.rows = TailRows(UpTo(df.rows, date), self.max_window + 20)]]

PeakKDJ_explain_selection(self, date, df) ==
    Bind(PeakKDJ_explain_hist(self, date, df),
         LAMBDA h :
            IF h.exc # "none" THEN h.exc
            ELSE Bind(PeakKDJ_passes_filters(self, h.hist),
                      LAMBDA r : IF r = "False" THEN "sentinel"
                                 ELSE IF r = "True" THEN "breakdown"
                                 ELSE r))

\* The date of the target peak the loop of _passes_filters(hist) settles on
\* (0: the loop is not reached or ends with target_peak = None)
PeakKDJ_filter_peak(self, hist) ==
    IF IsExc(PeakKDJ_passes_filters(self, hist)) \/ Len(hist.rows) = 0 THEN 0
    ELSE Bind(SortByDate(hist.rows), LAMBDA rows :
         Bind(PeakKDJ_peaks(rows), LAMBDA peaks :
             IF Len(peaks) < 2 THEN 0
             ELSE Bind(PeakKDJ_target(self, rows, OcMax(rows), peaks, Len(peaks) - 1),
                       LAMBDA t : IF t = 0 THEN 0 ELSE rows[peaks[t]].date)))

\* The candidate test of the loop of explain_selection (lines 612-629)
PeakKDJ_explain_candidate(self, rows, oc, peaks, idx) ==
    LET total_peaks == Len(peaks)
        oc_t        == oc[peaks[total_peaks]]
        oc_prev     == oc[peaks[idx]]
    IN  /\ ~(oc_t <= oc_prev)
        /\ ~(/\ total_peaks >= 3 /\ idx < total_peaks - 1
              /\ ~(\A k \in (idx + 1)..(total_peaks - 1) : oc[peaks[k]] < oc_prev))
        /\ Bind({rows[i].close : i \in {j \in 1..Len(rows) :
                                           rows[j].date > rows[peaks[idx]].date
                                           /\ rows[j].date < rows[peaks[total_peaks]].date}},
                LAMBDA closes :
                   \* not (isna(min_close) or oc_prev <= min_close * (1 + gap_threshold))
                   ~(\/ closes = {}
                     \/ oc_prev * self.gap_threshold.d
                           <= SetMin(closes) * (self.gap_threshold.d + self.gap_threshold.n)))

\* The loop of explain_selection over idx = total_peaks - 2 .. 0, as a
\* position in peaks (0 for None)
RECURSIVE PeakKDJ_explain_target(_, _, _, _, _)
PeakKDJ_explain_target(self, rows, oc, peaks, idx) ==
    IF idx < 1 THEN 0
    ELSE IF PeakKDJ_explain_candidate(self, rows, oc, peaks, idx) THEN idx
    ELSE PeakKDJ_explain_target(self, rows, oc, peaks, idx - 1)

\* The date of the target peak in the text explain_selection returns (0: it
\* reports that no peak qualifies, or no breakdown is returned)
PeakKDJ_explain_peak(self, date, df) ==
    IF PeakKDJ_explain_selection(self, date, df) # "breakdown" THEN 0
    ELSE Bind(SortByDate(PeakKDJ_explain_hist(self, date, df).hist.rows), LAMBDA rows :
         Bind(PeakKDJ_peaks(rows), LAMBDA peaks :
             IF Len(peaks) < 2 THEN 0
             ELSE Bind(PeakKDJ_explain_target(self, rows, OcMax(rows), peaks,
                                              Len(peaks) - 1),
                       LAMBDA t : IF t = 0 THEN 0 ELSE rows[peaks[t]].date)))

\* ------------------------------------------------------------------ BBIShortLongSelector

BBIShortLong_init(kw) ==
    LET m == Kw(kw, "m", 3)
    IN  IF ~(DOMAIN kw \subseteq {"n_short", "n_long", "m", "bbi_min_window",
                                  "max_window", "bbi_q_threshold"})
        THEN [exc |-> "TypeError"]
        ELSE IF m < 2 THEN [exc |-> "ValueError"]
        ELSE [exc |-> "none",
              obj |-> [kind |-> "BBIShortLong",
                       n_short |-> Kw(kw, "n_short", 3),
                       n_long |-> Kw(kw, "n_long", 21),
                       m |-> m,
                       bbi_min_window |-> Kw(kw, "bbi_min_window", 90),
                       max_window |-> Kw(kw, "max_window", 150),
                       bbi_q_threshold |-> Kw(kw, "bbi_q_threshold", R(5, 100))]]

RsvHigh == 80

RsvLow == 20

BBIShortLong_passes_filters(self, hist) ==
    IF "close" \notin hist.cols THEN "KeyError"
    ELSE Bind(bbi_deriv_uptrend(compute_bbi(hist.rows), self.bbi_min_window,
                                self.max_window, self.bbi_q_threshold), LAMBDA up :
             IF up # "True" THEN up
             ELSE IF "low" \notin hist.cols THEN "KeyError"
             ELSE IF Len(hist.rows) < self.m THEN "False"
             ELSE Bind(TailRows(compute_rsv(hist.rows, self.n_short), self.m),
                       LAMBDA rsv_short :
                  Bind(TailRows(compute_rsv(hist.rows, self.n_long), self.m),
                       LAMBDA rsv_long :
                      LET long_ok == \A i \in 1..Len(rsv_long) : RsvGE(rsv_long[i], RsvHigh)
                          short_start_end_ok ==
                              RsvGE(rsv_short[1], RsvHigh)
                              /\ RsvGE(rsv_short[Len(rsv_short)], RsvHigh)
                          short_has_below_20 ==
                              \E i \in 1..Len(rsv_short) : RsvLT(rsv_short[i], RsvLow)
                      IN  IF ~(long_ok /\ short_start_end_ok /\ short_has_below_20)
                          THEN "False"
                          ELSE IF dif_last(hist.rows) > 0 THEN "True" ELSE "False")))

BBIShortLong_select_hist(self, date, df) ==
    IF "date" \notin df.cols THEN [exc |-> "KeyError", hist |-> df]
    ELSE LET need_len == Max2(self.n_short, self.n_long) + self.bbi_min_window + self.m
         IN  [exc |-> "none",
              hist |-> [df EXCEPT !.rows = TailRows(UpTo(df.rows, date),
                                                    Max2(need_len, self.max_window))]]

BBIShortLong_select_one(self, date, df) ==
    Bind(BBIShortLong_select_hist(self, date, df),
         LAMBDA h :
            IF h.exc # "none" THEN h.exc
            ELSE IF Len(UpTo(df.rows, date)) = 0 THEN "skip"
            ELSE BBIShortLong_passes_filters(self, h.hist))

BBIShortLong_explain_hist(self, date, df) ==
    IF "date" \notin df.cols THEN [exc |-> "KeyError", hist |-> df]
    ELSE [exc |-> "none",
          hist |-> [df EXCEPT !.rows =
                       TailRows(UpTo(df.rows, date),
                                Max2(Max2(self.n_short, self.n_long)
                                       + self.bbi_min_window + self.m,
                                     self.max_window))]]

BBIShortLong_explain_selection(self, date, df) ==
    Bind(BBIShortLong_explain_hist(self, date, df),
         LAMBDA h :
            IF h.exc # "none" THEN h.exc
            ELSE IF Len(UpTo(df.rows, date)) = 0 THEN "nohistory"
            ELSE Bind(BBIShortLong_passes_filters(self, h.hist),
                      LAMBDA r : IF r = "False" THEN "sentinel"
                                 ELSE IF r = "True" THEN "breakdown"
                                 ELSE r))

\* ------------------------------------------------------------------ BreakoutVolumeKDJSelector

BreakoutVolumeKDJ_init(kw) ==
    IF ~(DOMAIN kw \subseteq {"j_threshold", "up_threshold", "volume_threshold", "offset",
                              "max_window", "price_range_pct", "j_q_threshold"})
    THEN [exc |-> "TypeError"]
    ELSE [exc |-> "none",
          obj |-> [kind |-> "BreakoutVolumeKDJ",
                   j_threshold |-> Kw(kw, "j_threshold", 0),
                   up_threshold |-> Kw(kw, "up_threshold", R(3, 1)),
                   volume_threshold |-> Kw(kw, "volume_threshold", R(2, 3)),
                   offset |-> Kw(kw, "offset", 15),
                   max_window |-> Kw(kw, "max_window", 120),
                   price_range_pct |-> Kw(kw, "price_range_pct", R(10, 1)),
                   j_q_threshold |-> Kw(kw, "j_q_threshold", R(10, 100))]]

JSlack == 10

\* 1) not (pct_chg < up_threshold); the pct_chg of the first row is nan
BreakoutUp(self, rows, t) ==
    t > 1 => ~QuotLT(100 * (rows[t].close - rows[t - 1].close), rows[t - 1].close,
                     self.up_threshold)

\* Variant for C21: the volume of day t is compared with the earlier bars only
BreakoutDay_earlier_volumes(self, rows, js, t) ==
    LET n == Len(rows)
        vol_T == rows[t].volume
    IN  /\ vol_T > 0
        /\ \A i \in 1..(t - 1) :
               rows[i].volume * self.volume_threshold.d <= self.volume_threshold.n * vol_T
        /\ \A i \in 1..(t - 1) : rows[t].close > rows[i].close
        /\ \A i \in t..(n - 1) : js[i] > js[n] - JSlack * JScale

\* The other three conditions on a candidate breakout day t of the window
BreakoutDay(self, rows, js, t) ==
    LET n == Len(rows)
        vol_T == rows[t].volume
    IN  \* 2) vol_T > 0 and every other volume <= volume_threshold * vol_T
        /\ vol_T > 0
        /\ \A i \in (1..n) \ {t} :
               rows[i].volume * self.volume_threshold.d <= self.volume_threshold.n * vol_T
        \* 3) not (close <= max of the earlier closes); the max of none is nan
        /\ \A i \in 1..(t - 1) : rows[t].close > rows[i].close
        \* 4) J[t .. last - 1] > J[last] - 10
        /\ \A i \in t..(n - 1) : js[i] > js[n] - JSlack * JScale

BreakoutVolumeKDJ_passes_filters(self, hist) ==
    IF Len(hist.rows) < self.offset + 2 THEN "False"
    ELSE Bind(TailRows(hist.rows, self.max_window), LAMBDA rows :
             IF "close" \notin hist.cols THEN "KeyError"
             ELSE IF RangeFails(Col(rows, "close"), self.price_range_pct) THEN "False"
             ELSE IF Len(rows) = 0 THEN "IndexError"
             ELSE IF ~({"low", "high"} \subseteq hist.cols) THEN "KeyError"
             ELSE Bind(Col(compute_kdj(rows), "J"), LAMBDA js :
                  Bind(JGate(js, self.j_threshold, self.max_window, self.j_q_threshold),
                       LAMBDA g :
                      IF g # "True" THEN g
                      ELSE IF dif_last(rows) <= 0 THEN "False"
                      ELSE Bind({t \in Max2(1, Len(rows) - self.offset)..(Len(rows) - 1) :
                                    BreakoutUp(self, rows, t)},
                                LAMBDA cand :
                               IF cand = {} THEN "False"
                               ELSE IF "volume" \notin hist.cols THEN "KeyError"
                               ELSE IF \E t \in cand : BreakoutDay(self, rows, js, t)
                                    THEN "True" ELSE "False"))))

BreakoutVolumeKDJ_select_hist(self, date, df) ==
    IF "date" \notin df.cols THEN [exc |-> "KeyError", hist |-> df]
    ELSE [exc |-> "none", hist |-> [df EXCEPT !.rows = UpTo(df.rows, date)]]

BreakoutVolumeKDJ_select_one(self, date, df) ==
    Bind(BreakoutVolumeKDJ_select_hist(self, date, df),
         LAMBDA h :
            IF h.exc # "none" THEN h.exc
            ELSE IF Len(h.hist.rows) = 0 THEN "skip"
            ELSE BreakoutVolumeKDJ_passes_filters(self, h.hist))

BreakoutVolumeKDJ_explain_hist(self, date, df) ==
    IF "date" \notin df.cols THEN [exc |-> "KeyError", hist |-> df]
    ELSE [exc |-> "none", hist |-> [df EXCEPT !.rows = UpTo(df.rows, date)]]

\* Variant for C10: the breakdown is built whatever the filter returns
BreakoutVolumeKDJ_explain_selection_ungated(self, date, df) ==
    Bind(BreakoutVolumeKDJ_explain_hist(self, date, df),
         LAMBDA h :
            IF h.exc # "none" THEN h.exc
            ELSE Bind(BreakoutVolumeKDJ_passes_filters(self, h.hist),
                      LAMBDA r : IF IsExc(r) THEN r ELSE "breakdown"))

BreakoutVolumeKDJ_explain_selection(self, date, df) ==
    Bind(BreakoutVolumeKDJ_explain_hist(self, date, df),
         LAMBDA h :
            IF h.exc # "none" THEN h.exc
            ELSE Bind(BreakoutVolumeKDJ_passes_filters(self, h.hist),
                      LAMBDA r : IF r = "False" THEN "sentinel"
                                 ELSE IF r = "True" THEN "breakdown"
                                 ELSE r))

\* The days of the breakout search that meet all four conditions of the
\* filter's loop, in scan order (the loop returns at the first of them)
BreakoutVolumeKDJ_matches(self, rows) ==
    Bind(Col(compute_kdj(rows), "J"), LAMBDA js :
        {t \in Max2(1, Len(rows) - self.offset)..(Len(rows) - 1) :
            BreakoutUp(self, rows, t) /\ BreakoutDay(self, rows, js, t)})

\* The date of the day T at which the filter's loop returns True (0: the
\* filter does not return True)
BreakoutVolumeKDJ_filter_T(self, hist) ==
    IF BreakoutVolumeKDJ_passes_filters(self, hist) # "True" THEN 0
    ELSE Bind(TailRows(hist.rows, self.max_window), LAMBDA rows :
             rows[SetMin(BreakoutVolumeKDJ_matches(self, rows))].date)

\* breakthrough_dates of explain_selection, as dates in scan order; its loop
\* tests pct_chg >= up_threshold and close > max of the earlier closes, both
\* False on the first row of the frame (nan)
BreakoutVolumeKDJ_explain_listed(self, rows) ==
    Bind(Col(compute_kdj(rows), "J"), LAMBDA js :
        SelectSeq([i \in 1..Len(rows) |-> i], LAMBDA t :
            /\ t \in Max2(1, Len(rows) - self.offset)..(Len(rows) - 1)
            /\ t > 1
            /\ BreakoutUp(self, rows, t)
            /\ BreakoutDay(self, rows, js, t)))

BreakoutVolumeKDJ_explain_dates(self, date, df) ==
    IF BreakoutVolumeKDJ_explain_selection(self, date, df) # "breakdown" THEN <<>>
    ELSE Bind(TailRows(UpTo(df.rows, date), self.max_window), LAMBDA rows :
             Bind(BreakoutVolumeKDJ_explain_listed(self, rows), LAMBDA ts :
                 [k \in 1..Len(ts) |-> rows[ts[k]].date]))

\* ------------------------------------------------------------------ frame effects

\* The caller's frame after a body that assigns the columns cols through its
\* local name hist.  bound = "arg": the name still refers to the caller's
\* object; bound = "new": it was rebound to the object made by copy(),
\* tail() or a boolean mask before the first assignment.
CallerFrame(hist, bound, cols) ==
    IF bound = "arg" THEN [hist EXCEPT !.cols = @ \cup cols] ELSE hist

\* Variant for C14: _passes_filters without its hist = hist.copy()
BBIKDJ_filter_frame_in_place(self, hist) == CallerFrame(hist, "arg", {"BBI", "DIF"})

\* hist = hist.copy(); hist["BBI"] = ...; hist["DIF"] = ...
BBIKDJ_filter_frame(self, hist) == CallerFrame(hist, "new", {"BBI", "DIF"})

\* No column is assigned; the inner filter gets hist.loc[:idx] and
\* compute_kdj returns a new frame
SuperB1_filter_frame(self, hist) == CallerFrame(hist, "arg", {})

\* hist = hist.copy().sort_values("date"); hist["oc_max"] = ...
PeakKDJ_filter_frame(self, hist) == CallerFrame(hist, "new", {"oc_max"})

\* hist = hist.copy(); BBI, RSV_short, RSV_long, DIF
BBIShortLong_filter_frame(self, hist) ==
    CallerFrame(hist, "new", {"BBI", "RSV_short", "RSV_long", "DIF"})

\* hist = hist.tail(max_window).copy(); hist = compute_kdj(hist);
\* hist["pct_chg"] = ...; hist["DIF"] = ...
BreakoutVolumeKDJ_filter_frame(self, hist) ==
    CallerFrame(hist, "new", {"K", "D", "J", "pct_chg", "DIF"})

\* The caller's hist after self._passes_filters(hist)
filter_frame(self, hist) ==
    CASE self.kind = "BBIKDJ" -> BBIKDJ_filter_frame(self, hist)
      [] self.kind = "SuperB1" -> SuperB1_filter_frame(self, hist)
      [] self.kind = "PeakKDJ" -> PeakKDJ_filter_frame(self, hist)
      [] self.kind = "BBIShortLong" -> BBIShortLong_filter_frame(self, hist)
      [] self.kind = "BreakoutVolumeKDJ" -> BreakoutVolumeKDJ_filter_frame(self, hist)

\* The caller's df after select or explain_selection has worked on it: both
\* hand the filter hist = df[df["date"] <= date], a new object, so whatever
\* the filter does to its argument is done to that object
masked_frame(self, date, df) ==
    IF "date" \notin df.cols THEN df
    ELSE Bind(filter_frame(self, [df EXCEPT !.rows = UpTo(df.rows, date)]),
              LAMBDA hist : df)

\* ------------------------------------------------------------------ the five classes

Kinds == {"BBIKDJ", "SuperB1", "PeakKDJ", "BBIShortLong", "BreakoutVolumeKDJ"}

\* Class(**kw)
construct(kind, kw) ==
    CASE kind = "BBIKDJ" -> BBIKDJ_init(kw)
      [] kind = "SuperB1" -> SuperB1_init(kw)
      [] kind = "PeakKDJ" -> PeakKDJ_init(kw)
      [] kind = "BBIShortLong" -> BBIShortLong_init(kw)
      [] kind = "BreakoutVolumeKDJ" -> BreakoutVolumeKDJ_init(kw)

\* self._passes_filters(hist)
passes_filters(self, hist) ==
    CASE self.kind = "BBIKDJ" -> BBIKDJ_passes_filters(self, hist)
      [] self.kind = "SuperB1" -> SuperB1_passes_filters(self, hist)
      [] self.kind = "PeakKDJ" -> PeakKDJ_passes_filters(self, hist)
      [] self.kind = "BBIShortLong" -> BBIShortLong_passes_filters(self, hist)
      [] self.kind = "BreakoutVolumeKDJ" -> BreakoutVolumeKDJ_passes_filters(self, hist)

\* The body of select's loop for one symbol: "True" (appended to picks),
\* "False", "skip" (continue before the filter) or the exception raised
select_one(self, date, df) ==
    CASE self.kind = "BBIKDJ" -> BBIKDJ_select_one(self, date, df)
      [] self.kind = "SuperB1" -> SuperB1_select_one(self, date, df)
      [] self.kind = "PeakKDJ" -> PeakKDJ_select_one(self, date, df)
      [] self.kind = "BBIShortLong" -> BBIShortLong_select_one(self, date, df)
      [] self.kind = "BreakoutVolumeKDJ" -> BreakoutVolumeKDJ_select_one(self, date, df)

\* The window select hands the filter for one symbol
select_hist(self, date, df) ==
    CASE self.kind = "BBIKDJ" -> BBIKDJ_select_hist(self, date, df)
      [] self.kind = "SuperB1" -> SuperB1_select_hist(self, date, df)
      [] self.kind = "PeakKDJ" -> PeakKDJ_select_hist(self, date, df)
      [] self.kind = "BBIShortLong" -> BBIShortLong_select_hist(self, date, df)
      [] self.kind = "BreakoutVolumeKDJ" -> BreakoutVolumeKDJ_select_hist(self, date, df)

\* The window explain_selection hands the filter
explain_hist(self, date, df) ==
    CASE self.kind = "BBIKDJ" -> BBIKDJ_explain_hist(self, date, df)
      [] self.kind = "SuperB1" -> SuperB1_explain_hist(self, date, df)
      [] self.kind = "PeakKDJ" -> PeakKDJ_explain_hist(self, date, df)
      [] self.kind = "BBIShortLong" -> BBIShortLong_explain_hist(self, date, df)
      [] self.kind = "BreakoutVolumeKDJ" -> BreakoutVolumeKDJ_explain_hist(self, date, df)

\* self.explain_selection(code, date, df): "sentinel", "nohistory",
\* "breakdown" or the exception raised
explain_selection(self, date, df) ==
    CASE self.kind = "BBIKDJ" -> BBIKDJ_explain_selection(self, date, df)
      [] self.kind = "SuperB1" -> SuperB1_explain_selection(self, date, df)
      [] self.kind = "PeakKDJ" -> PeakKDJ_explain_selection(self, date, df)
      [] self.kind = "BBIShortLong" -> BBIShortLong_explain_selection(self, date, df)
      [] self.kind = "BreakoutVolumeKDJ" -> BreakoutVolumeKDJ_explain_selection(self, date, df)

\* Variant for C13: a passing symbol is put at the front of picks
RECURSIVE select_loop_prepend(_, _, _, _, _, _)
select_loop_prepend(self, date, keys, data, i, picks) ==
    IF i > Len(keys) THEN [exc |-> "none", picks |-> picks]
    ELSE Bind(select_one(self, date, data[keys[i]]), LAMBDA r :
             IF IsExc(r) THEN [exc |-> r, picks |-> <<>>]
             ELSE select_loop_prepend(self, date, keys, data, i + 1,
                                      IF r = "True" THEN <<keys[i]>> \o picks ELSE picks))

\* for code, df in data.items(): ... picks.append(code); an exception in
\* the loop body leaves select without a return value
RECURSIVE select_loop(_, _, _, _, _, _)
select_loop(self, date, keys, data, i, picks) ==
    IF i > Len(keys) THEN [exc |-> "none", picks |-> picks]
    ELSE Bind(select_one(self, date, data[keys[i]]), LAMBDA r :
             IF IsExc(r) THEN [exc |-> r, picks |-> <<>>]
             ELSE select_loop(self, date, keys, data, i + 1,
                              IF r = "True" THEN Append(picks, keys[i]) ELSE picks))

\* self.select(date, data), data a mapping iterated in the order keys
select(self, date, keys, data) == select_loop(self, date, keys, data, 1, <<>>)

\* ------------------------------------------------------------------ inputs

\* Closes are piecewise linear through knots <<bar, close>>; bar i is dated i,
\* opens at its (uncorrupted) close, and has high = close + 2, low = close - 2
RECURSIVE Interp(_, _, _)
Interp(knots, k, i) ==
    IF k = Len(knots) \/ i <= knots[k][1] THEN knots[k][2]
    ELSE IF i >= knots[k + 1][1] THEN Interp(knots, k + 1, i)
    ELSE knots[k][2]
         + ((knots[k + 1][2] - knots[k][2]) * (i - knots[k][1]))
           \div (knots[k + 1][1] - knots[k][1])

\* spike: the bar with doubled volume (0 for none); bad: <<bar, close>> pairs
\* that overwrite a close (and pull the low down with it)
MkRows(knots, n, spike, bad) ==
    [i \in 1..n |->
        LET c0 == Interp(knots, 1, i)
            c  == IF \E b \in bad : b[1] = i
                  THEN (CHOOSE b \in bad : b[1] = i)[2] ELSE c0
        IN  [date |-> i, open |-> c0, high |-> Max2(c0, c) + 2, low |-> Min2(c0, c) - 2,
             close |-> c, volume |-> IF i = spike THEN 200 ELSE 100]]

MkFrame(knots, n, spike, bad, cols) ==
    [cols |-> cols, rows |-> MkRows(knots, n, spike, bad)]

\* The patterns end on bar PatternEnd; up to FutureBars later bars follow
PatternEnd == 30

FutureBars == 2

Patterns ==
    [rise_drop |-> <<<<1, 1010>>, <<29, 1290>>, <<30, 1270>>>>,
     fall      |-> <<<<1, 2000>>, <<30, 1710>>>>,
     sb1       |-> <<<<1, 1010>>, <<26, 1260>>, <<27, 1250>>, <<28, 1252>>, <<29, 1254>>,
                     <<30, 1204>>>>,
     twodips   |-> <<<<1, 1010>>, <<25, 1250>>, <<26, 1245>>, <<27, 1240>>, <<28, 1244>>,
                     <<29, 1248>>, <<30, 1200>>>>,
     upspike   |-> <<<<1, 1010>>, <<25, 1250>>, <<26, 1330>>, <<27, 1262>>, <<28, 1264>>,
                     <<29, 1266>>, <<30, 1220>>>>,
     reentry   |-> <<<<1, 1010>>, <<28, 1280>>, <<29, 1268>>, <<30, 1300>>>>,
     breakout  |-> <<<<1, 1010>>, <<27, 1270>>, <<28, 1310>>, <<29, 1320>>, <<30, 1310>>>>,
     peaks     |-> <<<<1, 1150>>, <<8, 1500>>, <<14, 1300>>, <<20, 1600>>, <<30, 1500>>>>]

PatternNames ==
    {"rise_drop", "fall", "sb1", "twodips", "upspike", "reentry", "breakout", "peaks"}

\* The bar of the volume spike of a pattern
SpikeOf(name) == IF name = "breakout" THEN 28 ELSE 0

\* A pattern followed by k later bars at the close v
PatternFrame(name, k, v, bad, cols) ==
    MkFrame(IF k = 0 THEN Patterns[name]
            ELSE Append(Patterns[name], <<PatternEnd + 1, v>>),
            PatternEnd + k, SpikeOf(name), bad, cols)

FutureClose == 500

\* Well-formed series: each pattern, alone and with 1..FutureBars later bars
PlainFrames ==
    {PatternFrame(name, k, FutureClose, {}, Columns) :
        name \in PatternNames, k \in 0..FutureBars}

\* Series with a zero or negative close
DegenerateFrames ==
    {PatternFrame("peaks", 0, 0, {<<8, -100>>}, Columns),
     PatternFrame("peaks", 0, 0, {<<8, 0>>}, Columns),
     PatternFrame("rise_drop", 0, 0, {<<29, 0>>}, Columns),
     PatternFrame("sb1", 0, 0, {<<29, 0>>}, Columns),
     PatternFrame("breakout", 0, 0, {<<25, -5>>}, Columns)}

\* A series without its close column
NoCloseFrame == PatternFrame("rise_drop", 0, 0, {}, Columns \ {"close"})

\* Series of 0, 1 and 2 bars
ShortFrames == {MkFrame(Patterns["rise_drop"], n, 0, {}, Columns) : n \in 0..2}

\* The 150-bar series of the end-to-end example: closes from 10.00 to 20.00
\* over the first 100 bars, a 5% drop on day 101
E2EFrame == MkFrame(<<<<1, 1000>>, <<100, 2000>>, <<101, 1900>>>>, 150, 0, {}, Columns)

E2EDates == {89, 101}

EarlyDates == {0, 2}

MaxCompanions == 1

Companions == {PatternFrame("rise_drop", 0, 0, {}, Columns), NoCloseFrame}

RECURSIVE SeqsUpTo(_, _)
SeqsUpTo(S, n) ==
    IF n = 0 THEN {<<>>}
    ELSE LET shorter == SeqsUpTo(S, n - 1)
         IN  shorter \cup {Append(q, x) : q \in shorter, x \in S}

CompanionCode(i) == IF i = 1 THEN "B" ELSE IF i = 2 THEN "C" ELSE "D"

\* A batch: the symbol "A" with the frame main, before or after its companions
Batch(main, comps, mainFirst) ==
    LET others == [i \in 1..Len(comps) |-> CompanionCode(i)]
    IN  [keys |-> IF mainFirst THEN <<"A">> \o others ELSE others \o <<"A">>,
         data |-> [c \in {"A"} \cup {others[i] : i \in 1..Len(others)} |->
                      IF c = "A" THEN main
                      ELSE comps[CHOOSE i \in 1..Len(comps) : others[i] = c]]]

\* 30 bars rising to 12.70 on day 27, then +3.1% on day 28, +3.1% on day 29
\* and 13.20 on day 30; v28 and v29 are the volumes of days 28 and 29, every
\* other volume is 100
VolumeFrame(v28, v29) ==
    [cols |-> Columns,
     rows |-> [i \in 1..PatternEnd |->
                  [MkRows(<<<<1, 1010>>, <<27, 1270>>, <<28, 1310>>, <<29, 1350>>,
                            <<30, 1320>>>>, PatternEnd, 0, {})[i]
                   EXCEPT !.volume = IF i = 28 THEN v28 ELSE IF i = 29 THEN v29 ELSE 100]]]

\* Two volume spikes, the second twice the first; two equal spikes
VolumeFrames == {VolumeFrame(200, 400), VolumeFrame(200, 200)}

\* The (date, data) arguments of the modelled select calls
SelectInputs ==
    {[date |-> PatternEnd, batch |-> Batch(f, cs, first)] :
        f \in PlainFrames \cup DegenerateFrames \cup ShortFrames \cup {NoCloseFrame},
        cs \in SeqsUpTo(Companions, MaxCompanions), first \in {TRUE}}
    \cup {[date |-> PatternEnd, batch |-> Batch(f, cs, FALSE)] :
        f \in PlainFrames \cup DegenerateFrames \cup ShortFrames \cup {NoCloseFrame},
        cs \in SeqsUpTo(Companions, MaxCompanions) \ {<<>>}}
    \cup {[date |-> d, batch |-> Batch(PatternFrame(name, 0, 0, {}, Columns), <<>>, TRUE)] :
        d \in EarlyDates, name \in PatternNames}
    \cup {[date |-> d, batch |-> Batch(E2EFrame, <<>>, TRUE)] : d \in E2EDates}
    \cup {[date |-> PatternEnd, batch |-> Batch(f, <<>>, TRUE)] : f \in VolumeFrames}

\* Series that never fall: a steady rise, and a rise with a ten-bar plateau
MonotoneFrames ==
    {MkFrame(<<<<1, 1010>>, <<PatternEnd, 1300>>>>, PatternEnd, 0, {}, Columns),
     MkFrame(<<<<1, 1000>>, <<10, 1090>>, <<20, 1090>>, <<PatternEnd, 1200>>>>,
             PatternEnd, 0, {}, Columns)}

\* 29 bars rising by 0.10 a day to 12.80 and closing at 12.68, the volume
\* spike on bar 27
EarlySpikeFrame == MkFrame(Patterns["reentry"], PatternEnd - 1, 27, {}, Columns)

\* The hist arguments of the modelled direct _passes_filters calls
FilterInputs ==
    {PatternFrame(name, 0, 0, {}, Columns) : name \in PatternNames}
    \cup DegenerateFrames \cup ShortFrames \cup {NoCloseFrame} \cup MonotoneFrames
    \cup {EarlySpikeFrame} \cup VolumeFrames

\* Three bars whose first two have high = low = close (a zero RSV divisor)
FlatFrame ==
    [cols |-> Columns,
     rows |-> [i \in 1..3 |->
                  [date |-> i, open |-> 1000, high |-> IF i = 3 THEN 1030 ELSE 1000,
                   low |-> 1000, close |-> IF i = 3 THEN 1020 ELSE 1000, volume |-> 100]]]

\* The df arguments of the modelled direct compute_kdj calls
KdjInputs == FilterInputs \cup {FlatFrame}

\* A BBI series of n values from first in steps of step (no NaN)
Ramp(n, first, step) == [i \in 1..n |-> [nan |-> FALSE, v |-> first + step * (i - 1)]]

MaxTrendLen == 3

\* The arguments of the modelled direct bbi_deriv_uptrend calls: rising and
\* falling series above and below zero, one that starts at zero and one that
\* is not monotone; max_window = 0 stands for None
UptrendInputs ==
    {[bbi |-> b, min_window |-> lo, max_window |-> hi, q_threshold |-> q] :
        b \in {Ramp(n, f, st) : n \in 0..MaxTrendLen, f \in {-500, 100}, st \in {-10, 10}}
               \cup {Ramp(MaxTrendLen, 0, 10),
                     [i \in 1..MaxTrendLen |-> [nan |-> FALSE, v |-> 100 + 10 * (i % 2)]]},
        lo \in 0..(MaxTrendLen + 1), hi \in 0..MaxTrendLen,
        q \in {R(0, 1), R(1, 2)}}
    \cup {[bbi |-> Ramp(MaxTrendLen, 100, 10), min_window |-> 2, max_window |-> 0,
           q_threshold |-> R(3, 2)]}

Small == [bbi_min_window |-> 3, max_window |-> 6]

\* The constructor calls modelled: <<class, keyword arguments>>
CtorInputs ==
    << <<"BBIKDJ", <<>>>>,
       <<"BBIKDJ", Small>>,
       <<"BBIKDJ", [bbi_min_window |-> 3, max_window |-> 6, bbi_q_threshold |-> R(3, 2)]>>,
       <<"BBIKDJ", [bbi_min_window |-> 3, max_window |-> 6, j_q_threshold |-> R(-1, 10)]>>,
       <<"BBIKDJ", [bbi_min_window |-> 1, max_window |-> 6]>>,
       <<"BBIKDJ", [bbi_min_window |-> 4, max_window |-> 6]>>,
       <<"BBIKDJ", [bbi_min_window |-> 4, max_window |-> 6, bbi_q_threshold |-> R(3, 2)]>>,
       <<"SuperB1", <<>>>>,
       <<"SuperB1", [lookback_n |-> 3]>>,
       <<"SuperB1", [lookback_n |-> 3, B1_params |-> Small]>>,
       <<"SuperB1", [lookback_n |-> 4, B1_params |-> Small]>>,
       <<"SuperB1", [lookback_n |-> 4, j_threshold |-> 1000 * JScale,
                     B1_params |-> [bbi_min_window |-> 3, max_window |-> 6,
                                    j_threshold |-> 1000 * JScale]]>>,
       <<"SuperB1", [lookback_n |-> 1, B1_params |-> Small]>>,
       <<"SuperB1", [lookback_n |-> 3, close_vol_pct |-> R(3, 2), B1_params |-> Small]>>,
       <<"SuperB1", [lookback_n |-> 3, j_q_threshold |-> R(3, 2), B1_params |-> Small]>>,
       <<"SuperB1", [lookback_n |-> 3,
                     B1_params |-> [bbi_min_window |-> 3, max_window |-> 6,
                                    bbi_q_threshold |-> R(3, 2)]]>>,
       <<"PeakKDJ", [max_window |-> 10, j_threshold |-> 50 * JScale]>>,
       <<"PeakKDJ", [max_window |-> 10, j_q_threshold |-> R(3, 2)]>>,
       <<"PeakKDJ", [max_window |-> 10, j_threshold |-> 1000 * JScale,
                     fluc_threshold |-> R(10, 1)]>>,
       <<"BBIShortLong", Small>>,
       <<"BBIShortLong", [m |-> 1, bbi_min_window |-> 3, max_window |-> 6]>>,
       <<"BBIShortLong", [m |-> 2, bbi_min_window |-> 3, max_window |-> 6]>>,
       <<"BBIShortLong", [m |-> 2, bbi_min_window |-> 3, max_window |-> 6,
                          bbi_q_threshold |-> R(3, 2)]>>,
       <<"BreakoutVolumeKDJ", [offset |-> 3, max_window |-> 12, j_threshold |-> 100 * JScale]>>,
       <<"BreakoutVolumeKDJ", [offset |-> 3, max_window |-> 3, j_threshold |-> 100 * JScale]>>,
       <<"BreakoutVolumeKDJ", [offset |-> 3, max_window |-> 12, j_threshold |-> 100 * JScale,
                               volume_threshold |-> R(1, 1)]>>,
       <<"BreakoutVolumeKDJ", [offset |-> 3, max_window |-> 12,
                               j_threshold |-> -1000 * JScale, j_q_threshold |-> R(3, 2)]>> >>

\* ------------------------------------------------------------------ the program

VARIABLES sel, ctor, call

vars == <<npEmptyQuantileRaises, sel, ctor, call>>

NoSel == [kind |-> "none"]

\* data: the arguments as passed; after: the same objects once the call is
\* over; tm: the date of the t_m of a SuperB1Selector (0: none); peak: the
\* date of the target peak of a PeakKDJSelector (0: none); bdays: the
\* breakout dates of a BreakoutVolumeKDJSelector (the day its filter returned
\* at, the days its explain_selection lists)
NoCall == [op |-> "none", date |-> 0, keys |-> <<>>, data |-> <<>>, code |-> "",
           exc |-> "none", picks |-> <<>>, ret |-> "", after |-> <<>>, tm |-> 0,
           peak |-> 0, bdays |-> <<>>]

Init ==
    /\ npEmptyQuantileRaises \in BOOLEAN
    /\ sel = NoSel
    /\ ctor = [kind |-> "none", kw |-> <<>>, exc |-> "none"]
    /\ call = NoCall

\* sel = Class(**kw): an exception leaves no object
Construct(i) ==
    /\ ctor.kind = "none"
    /\ \E r \in {construct(CtorInputs[i][1], CtorInputs[i][2])} :
           /\ ctor' = [kind |-> CtorInputs[i][1], kw |-> CtorInputs[i][2], exc |-> r.exc]
           /\ sel' = IF r.exc = "none" THEN r.obj ELSE NoSel
    /\ UNCHANGED <<npEmptyQuantileRaises, call>>

\* sel.select(date, data)
Select(inp) ==
    /\ sel.kind # "none"
    /\ call.op = "none"
    /\ \E r \in {select(sel, inp.date, inp.batch.keys, inp.batch.data)} :
           call' = [op |-> "select", date |-> inp.date, keys |-> inp.batch.keys,
                    data |-> inp.batch.data, code |-> "", exc |-> r.exc,
                    picks |-> r.picks, ret |-> "", tm |-> 0, peak |-> 0, bdays |-> <<>>,
                    after |-> [c \in DOMAIN inp.batch.data |->
                                  masked_frame(sel, inp.date, inp.batch.data[c])]]
    /\ UNCHANGED <<npEmptyQuantileRaises, sel, ctor>>

\* sel.explain_selection(code, date, data[code]) after a select that
\* returned, for a symbol of the same batch (picked or not)
Explain(code) ==
    /\ call.op = "select"
    /\ call.exc = "none"
    /\ code \in DOMAIN call.data
    /\ \E r \in {explain_selection(sel, call.date, call.data[code])} :
           call' = [call EXCEPT !.op = "explain", !.code = code,
                                !.exc = IF IsExc(r) THEN r ELSE "none",
                                !.ret = IF IsExc(r) THEN "" ELSE r,
                                !.after[code] = masked_frame(sel, call.date, call.after[code]),
                                !.tm = IF sel.kind = "SuperB1"
                                       THEN SuperB1_explain_tm(sel, call.date, call.data[code])
                                       ELSE 0,
                                !.peak = IF sel.kind = "PeakKDJ"
                                         THEN PeakKDJ_explain_peak(sel, call.date,
                                                                   call.data[code])
                                         ELSE 0,
                                !.bdays = IF sel.kind = "BreakoutVolumeKDJ"
                                          THEN BreakoutVolumeKDJ_explain_dates(
                                                   sel, call.date, call.data[code])
                                          ELSE <<>>]
    /\ UNCHANGED <<npEmptyQuantileRaises, sel, ctor>>

\* sel._passes_filters(hist)
PassesFilters(hist) ==
    /\ sel.kind # "none"
    /\ call.op = "none"
    /\ \E r \in {passes_filters(sel, hist)} :
           call' = [NoCall EXCEPT !.op = "filter", !.keys = <<"A">>,
                                  !.data = [c \in {"A"} |-> hist],
                                  !.exc = IF IsExc(r) THEN r ELSE "none",
                                  !.ret = IF IsExc(r) THEN "" ELSE r,
                                  !.after = [c \in {"A"} |-> filter_frame(sel, hist)],
                                  !.tm = IF sel.kind = "SuperB1" /\ ~IsExc(r)
                                         THEN SuperB1_filter_tm(sel, hist) ELSE 0,
                                  !.peak = IF sel.kind = "PeakKDJ"
                                           THEN PeakKDJ_filter_peak(sel, hist) ELSE 0,
                                  !.bdays = IF sel.kind = "BreakoutVolumeKDJ" /\ r = "True"
                                            THEN <<BreakoutVolumeKDJ_filter_T(sel, hist)>>
                                            ELSE <<>>]
    /\ UNCHANGED <<npEmptyQuantileRaises, sel, ctor>>

\* compute_kdj(df): the K, D, J columns it assigns, or the KeyError of a
\* missing price column (an empty frame is returned before any column is read)
ComputeKdj(df) ==
    /\ call.op = "none"
    /\ \E ok \in {Len(df.rows) = 0 \/ {"low", "high", "close"} \subseteq df.cols} :
           call' = [NoCall EXCEPT !.op = "compute_kdj", !.keys = <<"A">>,
                                  !.data = [c \in {"A"} |-> df],
                                  !.exc = IF ok THEN "none" ELSE "KeyError",
                                  !.ret = IF ok THEN compute_kdj(df.rows) ELSE ""]
    /\ UNCHANGED <<npEmptyQuantileRaises, sel, ctor>>

\* bbi_deriv_uptrend(bbi, min_window = .., max_window = .., q_threshold = ..)
BbiDerivUptrend(inp) ==
    /\ call.op = "none"
    /\ \E r \in {bbi_deriv_uptrend(inp.bbi, inp.min_window, inp.max_window,
                                    inp.q_threshold)} :
           call' = [NoCall EXCEPT !.op = "bbi_deriv_uptrend", !.data = inp,
                                  !.exc = IF IsExc(r) THEN r ELSE "none",
                                  !.ret = IF IsExc(r) THEN "" ELSE r]
    /\ UNCHANGED <<npEmptyQuantileRaises, sel, ctor>>

\* The call is over; the selector takes the next one
Return ==
    /\ call.op # "none"
    /\ call' = NoCall
    /\ UNCHANGED <<npEmptyQuantileRaises, sel, ctor>>

Next ==
    \/ \E i \in 1..Len(CtorInputs) : Construct(i)
    \/ \E inp \in SelectInputs : Select(inp)
    \/ \E code \in {"A", "B", "C", "D"} : Explain(code)
    \/ \E hist \in FilterInputs : PassesFilters(hist)
    \/ \E df \in KdjInputs : ComputeKdj(df)
    \/ \E inp \in UptrendInputs : BbiDerivUptrend(inp)
    \/ Return

Spec == Init /\ [][Next]_vars

\* ------------------------------------------------------------------ properties

InSeq(q, x) == \E i \in 1..Len(q) : q[i] = x

\* code is in the list the last select returned
Picked(code) == InSeq(call.picks, code)

\* A well-formed series: every column, dates ascending, prices positive
WellFormed(df) ==
    /\ df.cols = Columns
    /\ \A i \in 1..Len(df.rows) :
          /\ df.rows[i].close > 0 /\ df.rows[i].low > 0
          /\ i > 1 => df.rows[i - 1].date < df.rows[i].date

\* Two series of one symbol that agree on every bar dated <= date
Agree(f, g, date) == f.cols = g.cols /\ UpTo(f.rows, date) = UpTo(g.rows, date)

\* The outcome of the explain_selection call in progress
ExplainOutcome == IF call.exc # "none" THEN call.exc ELSE call.ret

\* C1: round trip.  When explain_selection is called for a symbol that the
\* select of the same date and data returned, it does not return the "did
\* not pass" sentinel.
C1_RoundTrip ==
    (call.op = "explain" /\ Picked(call.code)) => call.ret # "sentinel"

\* A returned symbol has been explained with its gate breakdown
C1_Witness ==
    call.op = "explain" /\ Picked(call.code) /\ call.ret = "breakdown"

BBIKDJ_default == BBIKDJ_init(<<>>).obj

\* C2: end-to-end example.  On the 150-bar series (linear rise over 100
\* bars, 5% drop on day 101) the BBIKDJSelector built with its defaults
\* returns the symbol for date = day 101 and not for a date before day 90.
C2_EndToEnd ==
    (call.op = "select" /\ sel = BBIKDJ_default /\ call.data = [c \in {"A"} |-> E2EFrame])
        => /\ call.date = 101 => Picked("A")
           /\ call.date < 90 => ~Picked("A")

\* C3: configuration errors are raised by the constructor and never by a
\* later call: once a selector has been constructed, no select /
\* _passes_filters / explain_selection call on well-formed series raises the
\* ValueError of a parameter value (a quantile threshold outside [0, 1]).
\* The converse of the claim (such a value makes the constructor fail) is
\* the contrapositive of this for the values that make a call fail.
C3_ConfigErrorsAtConstruction ==
    (call.op \in {"select", "filter", "explain"}
     /\ \A c \in DOMAIN call.data : WellFormed(call.data[c]))
        => call.exc # "ValueError"

\* C4: batch isolation.  Whatever happens on the other symbols of the batch,
\* select returns every symbol whose own series passes.
C4_BatchIsolation ==
    call.op = "select"
        => \A c \in DOMAIN call.data :
               select_one(sel, call.date, call.data[c]) = "True" => Picked(c)

\* C5: no look-ahead.  For a series that agrees with the series of the call
\* on every bar dated <= date, select makes the same pick / no-pick decision
\* and explain_selection has the same outcome, computed from the same window.
C5_NoLookAhead ==
    /\ (call.op = "select" /\ call.exc = "none")
          => \A c \in DOMAIN call.data : \A g \in PlainFrames :
                 Agree(call.data[c], g, call.date)
                     => (Picked(c) <=> select_one(sel, call.date, g) = "True")
    /\ call.op = "explain"
          => \A g \in PlainFrames :
                 Agree(call.data[call.code], g, call.date)
                     => /\ explain_selection(sel, call.date, g) = ExplainOutcome
                        /\ explain_hist(sel, call.date, g).hist.rows
                             = explain_hist(sel, call.date, call.data[call.code]).hist.rows

\* A symbol picked from a series that has bars after the date
C5_Witness ==
    /\ call.op = "select" /\ Picked("A")
    /\ \E i \in 1..Len(call.data["A"].rows) : call.data["A"].rows[i].date > call.date

\* keys in the opposite order
Reverse(keys) == [i \in 1..Len(keys) |-> keys[Len(keys) + 1 - i]]

\* C6: per-symbol independence.  Whether a symbol is among the picks of
\* select is the same when it is evaluated alone and when the symbols are
\* evaluated in the opposite order.
C6_Independence ==
    call.op = "select"
        => \A c \in DOMAIN call.data :
               /\ Picked(c) <=> InSeq(select(sel, call.date, <<c>>, call.data).picks, c)
               /\ Picked(c) <=> InSeq(select(sel, call.date, Reverse(call.keys),
                                             call.data).picks, c)

\* C7: data insufficiency.  On a well-formed series with at most two bars
\* on or before the date _passes_filters returns False and select returns
\* without the symbol; neither raises.
C7_InsufficientDataIsFalse ==
    /\ (call.op = "filter" /\ WellFormed(call.data["A"]) /\ Len(call.data["A"].rows) <= 2)
          => (call.exc = "none" /\ call.ret = "False")
    /\ (call.op = "select"
        /\ \A c \in DOMAIN call.data :
              WellFormed(call.data[c]) /\ Len(UpTo(call.data[c].rows, call.date)) <= 2)
          => (call.exc = "none" /\ call.picks = <<>>)

\* The close of the peak_prev that PeakKDJSelector's filter chooses on hist
\* is zero or negative
PeakPrevCloseNotPositive(self, hist) ==
    /\ Len(hist.rows) > 0
    /\ {"date", "open", "close"} \subseteq hist.cols
    /\ Bind(SortByDate(hist.rows), LAMBDA rows :
       Bind(PeakKDJ_peaks(rows), LAMBDA peaks :
           /\ Len(peaks) >= 2
           /\ Bind(PeakKDJ_target(self, rows, OcMax(rows), peaks, Len(peaks) - 1),
                   LAMBDA t : t # 0 /\ rows[peaks[t]].close <= 0)))

\* Every quantile threshold of the selector (and of its inner selector) is
\* in [0, 1]
QuantilesInUnit(self) ==
    /\ \A p \in {"bbi_q_threshold", "j_q_threshold"} \cap DOMAIN self : InUnit(self[p])
    /\ "bbi_selector" \in DOMAIN self
          => InUnit(self.bbi_selector.bbi_q_threshold)
             /\ InUnit(self.bbi_selector.j_q_threshold)

\* C8: degenerate numeric conditions.  For a selector whose quantile
\* thresholds are in [0, 1], _passes_filters returns False when the minimum
\* close of the range window (BBIKDJSelector), the previous close of the
\* drop-day check (SuperB1Selector) or the close of the chosen peak_prev
\* (PeakKDJSelector) is zero or negative.
C8_DegenerateIsFalse ==
    (call.op = "filter" /\ call.data["A"].cols = Columns /\ QuantilesInUnit(sel))
        => Bind(call.data["A"], LAMBDA hist :
              /\ (sel.kind = "BBIKDJ" /\ Len(hist.rows) > 0
                  /\ SeqMin(Col(TailRows(hist.rows, sel.max_window), "close")) <= 0)
                    => (call.exc = "none" /\ call.ret = "False")
              /\ (sel.kind = "SuperB1" /\ Len(hist.rows) >= 2
                  /\ hist.rows[Len(hist.rows) - 1].close <= 0)
                    => (call.exc = "none" /\ call.ret = "False")
              /\ (sel.kind = "PeakKDJ" /\ PeakPrevCloseNotPositive(sel, hist))
                    => (call.exc = "none" /\ call.ret = "False"))

\* C9: a SuperB1Selector constructed without B1_params fails with a
\* ValueError and leaves no object; a constructed SuperB1Selector owns the
\* BBIKDJSelector built from its B1_params.
C9_SuperB1NeedsB1Params ==
    /\ (ctor.kind = "SuperB1" /\ "B1_params" \notin DOMAIN ctor.kw)
          => (ctor.exc = "ValueError" /\ sel = NoSel)
    /\ sel.kind = "SuperB1"
          => /\ "B1_params" \in DOMAIN ctor.kw
             /\ sel.bbi_selector = BBIKDJ_init(ctor.kw.B1_params).obj

\* SuperB1Selector(lookback_n = 3) has been refused
C9_Witness ==
    /\ ctor.kind = "SuperB1" /\ DOMAIN ctor.kw = {"lookback_n"}
    /\ ctor.exc = "ValueError" /\ sel = NoSel

\* C10: explain_selection does not return a gate breakdown when the filter
\* does not pass on the window select cuts for that symbol and date.
C10_ExplainGated ==
    call.op = "explain"
        => Bind(select_hist(sel, call.date, call.data[call.code]), LAMBDA h :
               (h.exc = "none" /\ passes_filters(sel, h.hist) # "True")
                   => call.ret # "breakdown")

\* explain_selection has returned the sentinel for a symbol select left out
C10_Witness ==
    call.op = "explain" /\ ~Picked(call.code) /\ call.ret = "sentinel"

\* RSV of bar t as line 16 computes it: 100 * (close - low_n) / (high_n - low_n
\* + 1e-9) over the 9 bars ending at t
Rsv9(rows, t) ==
    Bind(SeqMin(SubSeq(Col(rows, "low"), Max2(1, t - KdjN + 1), t)), LAMBDA low_n :
        RsvFixed(rows[t].close - low_n,
                 SeqMax(SubSeq(Col(rows, "high"), Max2(1, t - KdjN + 1), t)) - low_n))

\* C11: on a non-empty series compute_kdj gives K(0) = D(0) = J(0) = 50,
\* K(t) = (2 K(t-1) + RSV(t)) / 3, D(t) = (2 D(t-1) + K(t)) / 3 with the K(t)
\* just computed, and J(t) = 3 K(t) - 2 D(t) at every t; a different close on
\* the first bar (a different RSV(0)) changes no K, D or J.
C11_KdjRecurrence ==
    (call.op = "compute_kdj" /\ call.exc = "none" /\ Len(call.data["A"].rows) > 0)
        => Bind(call.data["A"].rows, LAMBDA rows :
              /\ Len(call.ret) = Len(rows)
              /\ call.ret[1] = [K |-> 50 * JScale, D |-> 50 * JScale, J |-> 50 * JScale]
              /\ \A t \in 2..Len(rows) :
                     /\ call.ret[t].K = (2 * call.ret[t - 1].K + Rsv9(rows, t)) \div 3
                     /\ call.ret[t].D = (2 * call.ret[t - 1].D + call.ret[t].K) \div 3
              /\ \A t \in 1..Len(rows) : call.ret[t].J = 3 * call.ret[t].K - 2 * call.ret[t].D
              /\ \A c \in {0, rows[1].close + 1} :
                     compute_kdj([rows EXCEPT ![1].close = c]) = call.ret)

\* compute_kdj has returned for a series on which K, D and J move apart and
\* K differs from the K of the bar before
C11_Witness ==
    /\ call.op = "compute_kdj" /\ call.exc = "none" /\ Len(call.ret) >= 3
    /\ \E t \in 2..Len(call.ret) :
          /\ call.ret[t].K # call.ret[t - 1].K
          /\ call.ret[t].K # call.ret[t].D
          /\ call.ret[t].J # call.ret[t].K

StrictlyIncreasing(bbi) == \A i \in 2..Len(bbi) : bbi[i - 1].v < bbi[i].v

StrictlyDecreasing(bbi) == \A i \in 2..Len(bbi) : bbi[i - 1].v > bbi[i].v

\* C12: with q_threshold = 0 bbi_deriv_uptrend returns True on every
\* strictly increasing input for every min_window <= its length, and False
\* on every strictly decreasing input for every min_window and max_window.
\* Stated for inputs of at least two values, windows of at least two values
\* and a max_window that admits a window (None or >= min_window).
C12_UptrendMonotone ==
    (call.op = "bbi_deriv_uptrend" /\ call.data.q_threshold = R(0, 1)
     /\ Len(call.data.bbi) >= 2 /\ call.data.min_window >= 2)
        => /\ (StrictlyIncreasing(call.data.bbi)
               /\ call.data.min_window <= Len(call.data.bbi)
               /\ (call.data.max_window = 0
                      \/ call.data.max_window >= call.data.min_window))
                 => (call.exc = "none" /\ call.ret = "True")
           /\ StrictlyDecreasing(call.data.bbi)
                 => (call.exc = "none" /\ call.ret = "False")

\* The position of x in a sequence without repetitions (0 when absent)
PosIn(q, x) == IF InSeq(q, x) THEN CHOOSE i \in 1..Len(q) : q[i] = x ELSE 0

\* C13: the list select returns is a subsequence of the key order of the
\* mapping: only keys of data, each at most once, in iteration order.
C13_PicksSubsequence ==
    call.op = "select"
        => /\ \A i \in 1..Len(call.picks) : call.picks[i] \in DOMAIN call.data
           /\ \A i, j \in 1..Len(call.picks) :
                  i < j => PosIn(call.keys, call.picks[i]) < PosIn(call.keys, call.picks[j])

\* select has returned two symbols of a mapping whose iteration order is not
\* the sorted order of its keys
C13_Witness ==
    /\ call.op = "select" /\ call.exc = "none"
    /\ call.keys = <<"B", "A">> /\ call.picks = <<"B", "A">>

NonDecreasing(y) == \A i \in 2..Len(y) : y[i - 1] <= y[i]

\* C15: PeakKDJSelector's filter returns False whenever fewer than two
\* peaks of oc_max = max(open, close) are detected strictly before the
\* target date; in particular on a series whose oc_max never falls,
\* whatever the J values are.
C15_PeakKDJNeedsTwoPeaks ==
    (call.op = "filter" /\ sel.kind = "PeakKDJ" /\ Len(call.data["A"].rows) > 0
     /\ {"date", "open", "close"} \subseteq call.data["A"].cols)
        => Bind(SortByDate(call.data["A"].rows), LAMBDA rows :
              /\ Len(PeakKDJ_peaks(rows)) < 2 => (call.exc = "none" /\ call.ret = "False")
              /\ NonDecreasing(OcMax(rows)) => (call.exc = "none" /\ call.ret = "False"))

\* The filter of a PeakKDJSelector whose J gate lets every J through has
\* returned on a series of three bars or more whose oc_max never falls
C15_Witness ==
    /\ call.op = "filter" /\ sel.kind = "PeakKDJ" /\ call.ret = "False"
    /\ sel.j_threshold = 1000 * JScale
    /\ Len(call.data["A"].rows) >= 3
    /\ NonDecreasing(OcMax(call.data["A"].rows))

\* The dates of the candidates of the lookback span of hist (the lookback_n
\* bars before the last) that pass the inner BBIKDJSelector filter on the
\* history up to them and whose span up to the bar before the last has at
\* least 3 bars, a positive minimum close and a close volatility of at most
\* close_vol_pct
SuperB1_qualifying(self, hist) ==
    Bind(Len(hist.rows), LAMBDA n :
        {hist.rows[idx].date : idx \in
            {i \in Max2(1, n - self.lookback_n)..(n - 1) :
                /\ n - i >= 3
                /\ ~RangeFails(Col(SubSeq(hist.rows, i, n - 1), "close"), self.close_vol_pct)
                /\ BBIKDJ_passes_filters(self.bbi_selector,
                                         [hist EXCEPT !.rows = SubSeq(hist.rows, 1, i)])
                      = "True"}})

SetMax(S) == CHOOSE x \in S : \A y \in S : y <= x

\* The window of the call in progress for the symbol it is about
SuperB1_window ==
    IF call.op = "filter" THEN call.data["A"]
    ELSE SuperB1_explain_hist(sel, call.date, call.data[call.code]).hist

IsBreakoutDay(self, rows, js, t) ==
    /\ t > 1 /\ rows[t - 1].close # 0
    /\ ~QuotLT(100 * (rows[t].close - rows[t - 1].close), rows[t - 1].close,
               self.up_threshold)
    /\ rows[t].volume > 0
    /\ \A i \in (1..Len(rows)) \ {t} :
           rows[i].volume * self.volume_threshold.d
               <= self.volume_threshold.n * rows[t].volume
    /\ \A i \in 1..(t - 1) : rows[i].close < rows[t].close
    /\ \A i \in t..(Len(rows) - 1) : js[i] > js[Len(rows)] - JSlack * JScale

\* C17: whenever BreakoutVolumeKDJSelector's filter passes, for any
\* configuration, there is a breakout day T among the offset bars before the
\* final bar of the window (the last max_window bars) with a defined
\* day-over-day change >= up_threshold, the dominant volume, a new high close
\* and J held above J[final] - 10.
C17_BreakoutDayExists ==
    (call.op = "filter" /\ sel.kind = "BreakoutVolumeKDJ" /\ call.ret = "True")
        => Bind(TailRows(call.data["A"].rows, sel.max_window), LAMBDA rows :
               \E t \in Max2(1, Len(rows) - sel.offset)..(Len(rows) - 1) :
                   IsBreakoutDay(sel, rows, Col(compute_kdj(rows), "J"), t))

\* C18: a BBIKDJSelector with bbi_min_window > max_window - 3 (its
\* defaults 90 / 90 included) gets at most max_window + 20 bars from select,
\* hence at most max_window - 3 BBI values, and select returns an empty
\* list for every date and every batch (of well-formed series).
C18_NarrowWindowNeverSelects ==
    (call.op = "select" /\ sel.kind = "BBIKDJ"
     /\ sel.bbi_min_window > sel.max_window - 3
     /\ \A c \in DOMAIN call.data : WellFormed(call.data[c]))
        => (call.exc = "none" /\ call.picks = <<>>)

\* C19: for every candidate date t_m of SuperB1Selector's step-1 search,
\* the verdict of the inner filter on the SuperB1 window truncated at t_m
\* equals the verdict a stand-alone BBIKDJSelector with the same parameters
\* gives through select for the date t_m on the same series.
C19_InnerVerdictIsSelect ==
    (call.op = "select" /\ sel.kind = "SuperB1")
        => \A c \in DOMAIN call.data :
               Bind(SuperB1_select_hist(sel, call.date, call.data[c]), LAMBDA h :
                   (h.exc = "none"
                    /\ Len(h.hist.rows) >= sel.lookback_n + sel.extra_for_bbi)
                       => \A idx \in Max2(1, Len(h.hist.rows) - sel.lookback_n)
                                        ..(Len(h.hist.rows) - 1) :
                              (BBIKDJ_passes_filters(
                                   sel.bbi_selector,
                                   [h.hist EXCEPT !.rows = SubSeq(h.hist.rows, 1, idx)])
                                 = "True")
                              <=> (BBIKDJ_select_one(sel.bbi_selector,
                                                     h.hist.rows[idx].date, call.data[c])
                                     = "True"))

\* C20: when the step-1 loop of SuperB1Selector's filter ends, tm_idx is
\* not None if and only if some candidate among the lookback_n bars before
\* the target passes the inner filter and has a span [candidate, target-1]
\* of at least 3 bars with a positive minimum close and max/min - 1 <=
\* close_vol_pct, whatever the order of the scan; the inner filter is
\* invoked at most lookback_n times.
C20_SearchFindsIffExists ==
    (call.op = "filter" /\ sel.kind = "SuperB1"
     /\ Len(call.data["A"].rows) >= Max2(2, sel.lookback_n + sel.extra_for_bbi))
        => Bind(SuperB1_search(sel, call.data["A"],
                               Max2(1, Len(call.data["A"].rows) - sel.lookback_n),
                               Len(call.data["A"].rows) - 1),
                LAMBDA s :
                   /\ s.calls <= sel.lookback_n
                   /\ s.exc = "none"
                         => (s.tm # 0 <=> SuperB1_qualifying(sel, call.data["A"]) # {}))

\* The filter has settled on a t_m after a candidate before it passed the
\* inner filter and failed the consolidation check
C20_Witness ==
    /\ call.op = "filter" /\ sel.kind = "SuperB1" /\ call.tm # 0
    /\ \E i \in 1..Len(call.data["A"].rows) :
          /\ i >= Len(call.data["A"].rows) - sel.lookback_n
          /\ call.data["A"].rows[i].date < call.tm
          /\ BBIKDJ_passes_filters(sel.bbi_selector,
                                   [call.data["A"] EXCEPT !.rows = SubSeq(@, 1, i)]) = "True"

\* The relative-volume condition on bar t of the window rows: a positive
\* volume, and no other bar's volume above volume_threshold times it
RelativeVolume(self, rows, t) ==
    /\ rows[t].volume > 0
    /\ \A i \in (1..Len(rows)) \ {t} :
           rows[i].volume * self.volume_threshold.d
               <= self.volume_threshold.n * rows[t].volume

\* The series the _passes_filters or explain_selection call in progress is about
CallFrame == IF call.op = "filter" THEN call.data["A"] ELSE call.data[call.code]

\* The window a BreakoutVolumeKDJSelector call in progress searches
BreakoutWindow ==
    TailRows(IF call.op = "filter" THEN CallFrame.rows
             ELSE UpTo(CallFrame.rows, call.date), sel.max_window)

\* C21: in a BreakoutVolumeKDJSelector with 0 < volume_threshold < 1, at
\* most one bar of the window satisfies the relative-volume condition, at
\* most one day T of the search meets all the conditions, and
\* explain_selection lists at most one breakout date.
C21_OneBreakoutDay ==
    (call.op \in {"filter", "explain"} /\ sel.kind = "BreakoutVolumeKDJ"
     /\ call.exc = "none" /\ WellFormed(CallFrame)
     /\ 0 < sel.volume_threshold.n /\ sel.volume_threshold.n < sel.volume_threshold.d)
        => /\ Cardinality({t \in 1..Len(BreakoutWindow) :
                              RelativeVolume(sel, BreakoutWindow, t)}) <= 1
           /\ Cardinality(BreakoutVolumeKDJ_matches(sel, BreakoutWindow)) <= 1
           /\ Len(call.bdays) <= 1

\* An explain_selection that lists the one breakout day of a window with two
\* volume spikes, 200 on day 28 and 400 on day 29
C21_Witness ==
    /\ call.op = "explain" /\ sel.kind = "BreakoutVolumeKDJ"
    /\ sel.volume_threshold = R(2, 3) /\ sel.max_window > sel.offset + 1
    /\ call.data[call.code] = VolumeFrame(200, 400)
    /\ call.ret = "breakdown"
    /\ call.bdays = <<29>>

\* The short RSV of the last m bars of hist, the window of the RSV test
ShortWindow(self, hist) == TailRows(compute_rsv(hist.rows, self.n_short), self.m)

\* C22: BBIShortLongSelector rejects m < 2 at construction and accepts
\* m = 2; with m = 2 its filter never passes; a window that passes has a
\* bar with short RSV < 20 strictly between its first and its last bar; and
\* with m = 2 select returns an empty list for every input (every date and
\* every batch of well-formed series).
C22_TwoBarWindowNeverPasses ==
    /\ (ctor.kind = "BBIShortLong"
        /\ DOMAIN ctor.kw \subseteq {"n_short", "n_long", "m", "bbi_min_window",
                                     "max_window", "bbi_q_threshold"})
           => (ctor.exc = "ValueError" <=> Kw(ctor.kw, "m", 3) < 2)
    /\ (sel.kind = "BBIShortLong" /\ call.op = "filter" /\ sel.m = 2)
           => call.ret # "True"
    /\ (sel.kind = "BBIShortLong" /\ call.op = "filter" /\ call.ret = "True")
           => \E i \in 2..(sel.m - 1) :
                  RsvLT(ShortWindow(sel, call.data["A"])[i], RsvLow)
    /\ (sel.kind = "BBIShortLong" /\ call.op = "select" /\ sel.m = 2
        /\ \A c \in DOMAIN call.data : WellFormed(call.data[c]))
           => (call.exc = "none" /\ call.picks = <<>>)

\* The window explain_selection hands to _passes_filters in the call in progress
ExplainHist == explain_hist(sel, call.date, call.data[call.code]).hist

\* C23: whenever explain_selection does not return the sentinel, its own
\* search finds what the filter found.  SuperB1Selector reports a B1 date,
\* exactly the t_m accepted by _passes_filters; PeakKDJSelector reports a
\* target peak, the one the filter settled on; BreakoutVolumeKDJSelector
\* lists a non-empty set of breakout dates that contains the day T at which
\* the filter returned True.
C23_ExplainFindsWhatFilterFound ==
    (call.op = "explain" /\ call.exc = "none" /\ call.ret = "breakdown")
        => /\ sel.kind = "SuperB1"
                => (call.tm # 0 /\ call.tm = SuperB1_filter_tm(sel, ExplainHist))
           /\ sel.kind = "PeakKDJ"
                => (call.peak # 0 /\ call.peak = PeakKDJ_filter_peak(sel, ExplainHist))
           /\ sel.kind = "BreakoutVolumeKDJ"
                => (call.bdays # <<>>
                    /\ InSeq(call.bdays, BreakoutVolumeKDJ_filter_T(sel, ExplainHist)))

====
